---- MODULE Spec2Model ----
(***************************************************************************)
(* godouble: the call-matching and verification engine of a test double.   *)
(* A TestDouble owns one method object per interface method; a method owns *)
(* the ordered list of its registered calls (Stub, Mock, Spy, Fake).       *)
(* Invoke dispatches to the first registered call that matches, or to a    *)
(* call made by the double's default-call factory.                         *)
(***************************************************************************)
EXTENDS Integers, Sequences, FiniteSets, TLC

(***************************************************************************)
(* Bounds of the model.                                                    *)
(***************************************************************************)
MaxCalls == 2

MaxMocks == 3

MaxCount == 2

MaxTick == 3

MaxSend == 2

MaxReceive == 3

MaxExtra == 2

MaxExpected == 3

MaxDelay == 2

MaxInvoke == 4

MaxLog == 4

(***************************************************************************)
(* The doubled interfaces.  d1 doubles an interface with call(string) int  *)
(* and other() int, d2 one with call(string) int.  A method is named by    *)
(* its double and its name.                                                *)
(***************************************************************************)
Doubles == {"d1", "d2"}

Methods == {<<"d1", "call">>, <<"d1", "other">>, <<"d2", "call">>}

receiver(m) == m[1]

MethodsOf(d) == {m \in Methods : receiver(m) = d}

ArgValues == {"first", "second"}

NumIn(m) == IF m[2] = "other" THEN 0 ELSE 1

ArgsOf(m) == IF NumIn(m) = 0 THEN {<<>>} ELSE {<<a>> : a \in ArgValues}

ReturnValueSet == {1, 99}

(***************************************************************************)
(* Expectations.                                                           *)
(***************************************************************************)
NoExpect == [type |-> "nil", atLeast |-> 0, atMost |-> 0]

Exactly(n) == [type |-> "Exactly", atLeast |-> n, atMost |-> n]

Once == Exactly(1)

Twice == Exactly(2)

Never == [type |-> "Never", atLeast |-> 0, atMost |-> 0]

AtLeast(n) == [type |-> "AtLeast", atLeast |-> n, atMost |-> 0]

Between(min, max) == [type |-> "Between", atLeast |-> min, atMost |-> max]

AtMost(n) == Between(0, n)

\* mutant of Met: an upper bound is not looked at
MetFrom(e, count) == count >= e.atLeast

Met(e, count) ==
    CASE e.type = "Exactly" -> count = e.atLeast
      [] e.type = "Never"   -> count = 0
      [] e.type = "AtLeast" -> count >= e.atLeast
      [] e.type = "Between" -> count >= e.atLeast /\ count <= e.atMost

isCompletion(e) == e.type \in {"Exactly", "Between"}

Complete(e, count) ==
    CASE e.type = "Exactly" -> count >= e.atLeast
      [] e.type = "Between" -> count >= e.atMost

(***************************************************************************)
(* Argument matchers.  The parameter types of a method are reflect types   *)
(* by name; a matcher is a record whose type names its Go type and the     *)
(* inputs of Matching(...) are raw values, raw predicate functions or      *)
(* matchers.  Fatalf of a testing.T ends the goroutine, so a validation    *)
(* is modelled by whether it reaches a Fatalf.                             *)
(***************************************************************************)
\* type.AssignableTo for the types used
AssignableTo(from, to) == from = to \/ to = "interface"

nilable(ft) == ft \in {"*int", "*string", "[]string", "interface"}

hasLen(ft) == ft \in {"string", "[]string"}

isSlice(ft) == ft = "[]string"

Elem(ft) == "string"

\* reflect.Method.Type of the methods of the doubled interface
MethodType(name) ==
    CASE name = "call"     -> [in |-> <<"string">>, variadic |-> FALSE]
      [] name = "other"    -> [in |-> <<>>, variadic |-> FALSE]
      [] name = "test"     -> [in |-> <<"int", "string">>, variadic |-> FALSE]
      [] name = "variadic" -> [in |-> <<"int", "[]string">>, variadic |-> TRUE]
      [] name = "pointers" -> [in |-> <<"*int", "*string">>, variadic |-> FALSE]

\* a raw value and a raw function given to Matching
Raw(v) == [type |-> "value", v |-> v]

RawFunc(in, out, pred) ==
    [type |-> "func", in |-> in, out |-> out, variadic |-> FALSE, pred |-> pred, v |-> Raw("first")]

\* func(x string) bool, true on "first"
regexF == RawFunc(<<"string">>, <<"bool">>, "regexF")

\* func(i int) bool
intF == RawFunc(<<"int">>, <<"bool">>, "never")

\* func(s string) {} and func(s string) error
noReturnF == RawFunc(<<"string">>, <<>>, "never")

errorF == RawFunc(<<"string">>, <<"error">>, "never")

Func(f) == [f EXCEPT !.type = "Func"]

\* Eql is Func(func(arg interface{}) bool { return reflect.DeepEqual(arg, v) })
Eql(x) == [type |-> "Func", in |-> <<"interface">>, out |-> <<"bool">>,
           variadic |-> FALSE, pred |-> "Eql", v |-> x]

Nil == [type |-> "Nil"]

\* Len(n) for an integer n: lenMatcher{Eql(n)}
LenMatcher(n) == [type |-> "Len", n |-> n]

SliceMatcher(l) == [type |-> "Slice", list |-> l]

Args(l) == [type |-> "Args", list |-> l]

All(l) == [type |-> "All", list |-> l]

NilMatcher == [type |-> "nil", list |-> <<>>]

ArgsEql(v) == Args(<<Eql(Raw(v))>>)

\* the type assertions matcher.(SingleArgMatcher), matcher.(MethodArgsMatcher)
isSAM(x) == x.type \in {"Func", "Nil", "Len", "Slice", "All"}

isMAM(x) == x.type \in {"Func", "Args", "All"}

\* does ForType of the single argument matcher x reach Fatalf
RECURSIVE typeFatal(_, _)
typeFatal(x, ft) ==
    CASE x.type = "Func"  -> \/ Len(x.in) # 1
                             \/ x.out # <<"bool">>
                             \/ ~AssignableTo(ft, x.in[1])
      [] x.type = "Nil"   -> ~nilable(ft)
      [] x.type = "Len"   -> ~hasLen(ft)
      [] x.type = "Slice" -> \/ ~isSlice(ft)
                             \/ \E i \in DOMAIN x.list :
                                    ~isSAM(x.list[i]) \/ typeFatal(x.list[i], Elem(ft))
      [] x.type = "All"   -> \E i \in DOMAIN x.list :
                                    ~isSAM(x.list[i]) \/ typeFatal(x.list[i], ft)
      [] OTHER            -> TRUE

\* argumentsMatcher.ForMethod collapses the matchers of the variadic
\* positions into one Slice matcher
collapse(l, mt) ==
    IF mt.variadic /\ Len(l) > Len(mt.in) - 1
    THEN SubSeq(l, 1, Len(mt.in) - 1) \o <<SliceMatcher(SubSeq(l, Len(mt.in), Len(l)))>>
    ELSE l

\* does ForMethod of the method arguments matcher x reach Fatalf
RECURSIVE methodFatal(_, _)
methodFatal(x, mt) ==
    CASE x.type = "Func" -> \/ x.out # <<"bool">>
                            \/ x.variadic # mt.variadic
                            \/ Len(x.in) # Len(mt.in)
                            \/ \E i \in DOMAIN x.in : ~AssignableTo(mt.in[i], x.in[i])
      [] x.type = "Args" -> \/ ~mt.variadic /\ Len(x.list) > Len(mt.in)
                            \/ \E i \in DOMAIN collapse(x.list, mt) :
                                   \/ ~isSAM(collapse(x.list, mt)[i])
                                   \/ typeFatal(collapse(x.list, mt)[i], mt.in[i])
      [] x.type = "All"  -> \E i \in DOMAIN x.list :
                                   ~isMAM(x.list[i]) \/ methodFatal(x.list[i], mt)
      [] OTHER           -> TRUE

\* the matcher after ForMethod
forMethod(x, mt) == IF x.type = "Args" THEN Args(collapse(x.list, mt)) ELSE x

genericSingleArgumentMatcher(x) ==
    IF isSAM(x) THEN x
    ELSE IF x.type = "func" THEN Func(x)
    ELSE Eql(x)

\* result.ForMethod(t, forMethod) at the end of NewMatcherForMethod
validated(x, mt) ==
    [fatal |-> methodFatal(x, mt), validated |-> TRUE, result |-> forMethod(x, mt)]

\* NewMatcherForMethod: whether it reaches Fatalf, whether the matcher it
\* returns went through ForMethod, and the matcher
NewMatcherForMethod(mt, matchers) ==
    IF Len(mt.in) = 0
    THEN [fatal |-> TRUE, validated |-> FALSE, result |-> NilMatcher]
    ELSE IF Len(matchers) = 0
    THEN [fatal |-> FALSE, validated |-> FALSE, result |-> All(<<>>)]
    ELSE IF matchers[1].type = "func"
    THEN validated(Func(matchers[1]), mt)
    ELSE IF Len(matchers) > 1
    THEN [fatal |-> FALSE, validated |-> FALSE,
          result |-> Args([i \in DOMAIN matchers |-> genericSingleArgumentMatcher(matchers[i])])]
    ELSE IF isMAM(matchers[1])
    THEN validated(matchers[1], mt)
    ELSE validated(Args(<<genericSingleArgumentMatcher(matchers[1])>>), mt)

StrLen(s) == CASE s = "first" -> 5 [] s = "second" -> 6

\* Matcher.Matches on arguments that are strings
RECURSIVE Matches(_, _)
Matches(x, args) ==
    CASE x.type = "Func"  -> CASE x.pred = "Eql"    -> x.v.type = "value" /\ args = <<x.v.v>>
                               [] x.pred = "regexF" -> args = <<x.v.v>>
                               [] OTHER             -> FALSE
      [] x.type = "Nil"   -> FALSE
      [] x.type = "Len"   -> StrLen(args[1]) = x.n
      [] x.type = "Slice" -> FALSE
      [] x.type = "Args"  -> \A i \in DOMAIN x.list :
                                 i <= Len(args) => Matches(x.list[i], <<args[i]>>)
      [] x.type = "All"   -> \A i \in DOMAIN x.list : Matches(x.list[i], args)

\* the arguments of a method of the interface: a string, an int, and the
\* []string that holds the variadic arguments
Str(s) == [kind |-> "string", s |-> s]

IntArg(n) == [kind |-> "int", n |-> n]

SliceOf(elems) == [kind |-> "slice", elems |-> elems]

\* SingleArgMatcher.Matches of Eql and of Slice on such an argument
RECURSIVE matchesArg(_, _)
matchesArg(x, arg) ==
    CASE x.type = "Func"  -> x.pred = "Eql" /\ x.v.type = "value" /\ arg = x.v.v
      [] x.type = "Slice" -> /\ arg.kind = "slice"
                             /\ Len(arg.elems) >= Len(x.list)
                             /\ \A i \in DOMAIN x.list : matchesArg(x.list[i], arg.elems[i])
      [] OTHER            -> FALSE

\* argumentsMatcher.Matches
argsMatch(x, args) ==
    \A i \in DOMAIN x.list : i <= Len(args) => matchesArg(x.list[i], args[i])

(***************************************************************************)
(* Return values, as far as dispatch needs them: Values(v) returns <<v>>   *)
(* on every Receive and ZeroValues the zero value of the method's return   *)
(* type.                                                                   *)
(***************************************************************************)
NilReturns == [type |-> "nil", values |-> <<>>]

Values(v) == [type |-> "Values", values |-> <<v>>]

ZeroValues == [type |-> "Zero", values |-> <<0>>]

Receive(rv) == rv.values

FakeImpl(args) == IF Len(args) = 0 THEN <<0>> ELSE <<StrLen(args[1])>>

\* the implementations given to Fake: FakeImpl, and one that panics when
\* its argument is "second" and is FakeImpl otherwise
LenImpl == "len"

PanicImpl == "panics"

Impls == {LenImpl, PanicImpl}

implPanics(impl, args) == impl = PanicImpl /\ args = <<"second">>

VARIABLES
    phase,        \* "Setup" until the first invocation, then "Exercise"
    defaultCall,  \* TestDouble.defaultCall of each double
    trace,        \* TestDouble.trace of each double: EnableTrace was given
    calls,        \* method.calls of each method: the registered calls in order
    heap,         \* the MethodCall objects; a call is named by its index
    tick,         \* the global counter of recorded calls
    last,         \* what the most recent operation was and what it gave back
    ordered,      \* the list of calls given to ExpectInOrder, <<>> before that
    procs,        \* the goroutines of the test: where each is in Invoke or Receive
    mutex,        \* method.mutex of each method: the goroutine holding it, or "free"
    rc,           \* a returnChannel: the channel rc.values
    sender,       \* the goroutine that sends on rc and closes it: the number of
                  \* tuples sent and the number of Receives returned before Close
    got,          \* what the calls of Receive returned, in the order they returned
    seqs          \* the sequentialReturnValues objects

\* the state of the goroutines, the return channel and the sequences
concVars == <<procs, mutex, rc, sender, got, seqs>>

\* the options of the doubles, fixed by NewDouble
options == <<defaultCall, trace>>

vars == <<phase, options, calls, heap, tick, last, ordered, concVars>>

Ids == 1..Len(heap)

(***************************************************************************)
(* MethodCall objects.  kind is the dynamic type of the call; a field a    *)
(* kind does not have keeps its initial value.  vivified marks a call that *)
(* match obtained from the default-call factory.                           *)
(***************************************************************************)
newStubbedMethodCall(m) ==
    [kind |-> "Stub", method |-> m, matcher |-> NilMatcher, returns |-> NilReturns,
     count |-> 0, after |-> {}, expect |-> NoExpect, recorded |-> <<>>,
     impl |-> "nil", vivified |-> FALSE]

newMockedMethodCall(m) == [newStubbedMethodCall(m) EXCEPT !.kind = "Mock"]

newSpyMethodCall(m) == [newStubbedMethodCall(m) EXCEPT !.kind = "Spy"]

newFakeMethodCall(m, impl) == [newSpyMethodCall(m) EXCEPT !.kind = "Fake", !.impl = impl]

NilCall == [newStubbedMethodCall(<<"d1", "call">>) EXCEPT !.kind = "nil"]

\* methodCall.(SpyMethodCall): a Fake embeds a spy and has its method set
isSpyMethodCall(c) == c.kind \in {"Spy", "Fake"}

\* stubbedMethodCall.matches
stubMatches(c, args) ==
    IF c.matcher # NilMatcher THEN Matches(c.matcher, args) ELSE TRUE

\* mutant of complete: complete only once the count exceeds the upper bound
completeLate(c) ==
    IF isCompletion(c.expect) THEN Complete(c.expect, c.count - 1) ELSE FALSE

\* mockedMethodCall.complete
complete(c) ==
    IF isCompletion(c.expect) THEN Complete(c.expect, c.count) ELSE FALSE

\* mockedMethodCall.met
met(c) == IF c.expect # NoExpect THEN Met(c.expect, c.count) ELSE TRUE

\* mutant of inSequence: the calls in after need only have met their expectation
inSequenceMet(h, c) == \A a \in c.after : met(h[a])

\* mockedMethodCall.inSequence of the call c, on the heap h
inSequence(h, c) == \A a \in c.after : complete(h[a])

\* MethodCall.matches of the call c, on the heap h
matches(h, c, args) ==
    CASE c.kind = "Stub" -> stubMatches(c, args)
      [] c.kind = "Mock" -> stubMatches(c, args) /\ ~complete(c) /\ inSequence(h, c)
      [] c.kind \in {"Spy", "Fake"} -> TRUE

\* the loop of method.match over m.calls: the index of the first call that
\* matches, 0 when the loop falls through to the default call
RECURSIVE matchFrom(_, _, _, _)
matchFrom(h, cs, i, args) ==
    IF i > Len(cs) THEN 0
    ELSE IF matches(h, h[cs[i]], args) THEN i
    ELSE matchFrom(h, cs, i + 1, args)

\* mutant of matchIndex: the last matching call wins
matchIndexLast(h, cs, args) ==
    LET S == {i \in 1..Len(cs) : matches(h, h[cs[i]], args)}
    IN  IF S = {} THEN 0 ELSE CHOOSE i \in S : \A j \in S : j <= i

matchIndex(h, cs, args) == matchFrom(h, cs, 1, args)

(***************************************************************************)
(* Default-call factories a double can be configured with.                 *)
(***************************************************************************)
ShippedDefault == "MockNever"

Factories == {"MockNever", "Stub", "Spy", "Fake", "MockOnce", "StubSecond", "Nil"}

\* the default call a new double is given: a Mock that expects Never
ShippedDefaultCall(m) == [newMockedMethodCall(m) EXCEPT !.expect = Never]

\* TestDouble.defaultCall(m) under each factory
defaultCallFor(f, m) ==
    CASE f = "MockNever"  -> ShippedDefaultCall(m)
      [] f = "Stub"       -> newStubbedMethodCall(m)
      [] f = "Spy"        -> newSpyMethodCall(m)
      [] f = "Fake"       -> newFakeMethodCall(m, LenImpl)
      [] f = "MockOnce"   -> [newMockedMethodCall(m) EXCEPT !.expect = Once]
      [] f = "StubSecond" -> [newStubbedMethodCall(m) EXCEPT !.matcher = ArgsEql("second")]
      [] f = "Nil"        -> NilCall

\* method.defaultReturnValues with the function a new double is given:
\* ZeroValues of the method's type
defaultReturnValues(m) == ZeroValues

(***************************************************************************)
(* MethodCall.spy: the call after the dispatch, and the tuple returned.    *)
(***************************************************************************)
\* mutant of stubSpy: nil return values are not replaced by the defaults
stubSpyNoDefault(c) == c

\* stubbedMethodCall.spy
stubSpy(c) ==
    IF c.returns = NilReturns THEN [c EXCEPT !.returns = defaultReturnValues(c.method)]
    ELSE c

\* mutant of newRecordedCall: the tick is read without being added to
newRecordedCallNoAdd(args, t) == [args |-> args, tick |-> t]

\* newRecordedCall: tick: atomic.AddUint64(&tick, 1), t the value before
newRecordedCall(args, t) == [args |-> args, tick |-> t + 1]

\* mutant of spy: a Spy or Fake does not append the recorded call
spyUnrecorded(c, args, t) ==
    IF c.kind = "Mock" THEN stubSpy([c EXCEPT !.count = c.count + 1])
    ELSE IF c.kind = "Fake" THEN c ELSE stubSpy(c)

\* MethodCall.spy of each kind of call; t is the value of tick before
spy(c, args, t) ==
    CASE c.kind = "Stub" -> stubSpy(c)
      [] c.kind = "Mock" -> stubSpy([c EXCEPT !.count = c.count + 1])
      [] c.kind = "Spy"  ->
            stubSpy([c EXCEPT !.recorded = Append(c.recorded, newRecordedCall(args, t))])
      [] c.kind = "Fake" ->
            [c EXCEPT !.recorded = Append(c.recorded, newRecordedCall(args, t))]

spyReturns(c, args) ==
    IF c.kind = "Fake" THEN FakeImpl(args) ELSE Receive(stubSpy(c).returns)


(***************************************************************************)
(* Setup: registering calls and configuring them.  A test configures its   *)
(* doubles before it exercises them (the phases documented at TestDouble); *)
(* Spy may be called again later to retrieve the spy.                      *)
(***************************************************************************)
\* mutant of addMethodCall: the call is not added to the list of the method
addMethodCallDropped(m, id) == calls

\* method.addMethodCall
addMethodCall(m, id) == [calls EXCEPT ![m] = Append(@, id)]

register(m, c) ==
    /\ heap' = Append(heap, c)
    /\ calls' = addMethodCall(m, Len(heap) + 1)

Stub(m) ==
    /\ phase = "Setup"
    /\ register(m, newStubbedMethodCall(m))
    /\ last' = [op |-> "Stub"]
    /\ UNCHANGED <<phase, options, tick, ordered, concVars>>

Mock(m) ==
    /\ phase = "Setup"
    /\ register(m, newMockedMethodCall(m))
    /\ last' = [op |-> "Mock"]
    /\ UNCHANGED <<phase, options, tick, ordered, concVars>>

\* mutant of spiesOf: the loop over the calls finds no SpyMethodCall
spiesOfNone(h, cs) == <<>>

\* the calls of m that are a SpyMethodCall, in list order
spiesOf(h, cs) == SelectSeq(cs, LAMBDA id : isSpyMethodCall(h[id]))

Spy(m) ==
    /\ IF spiesOf(heap, calls[m]) # <<>>
       THEN /\ last' = [op |-> "Spy", m |-> m, result |-> Head(spiesOf(heap, calls[m]))]
            /\ UNCHANGED <<heap, calls>>
       ELSE /\ register(m, newSpyMethodCall(m))
            /\ last' = [op |-> "Spy", m |-> m, result |-> Len(heap) + 1]
    /\ UNCHANGED <<phase, options, tick, ordered, concVars>>

\* mutant of Fake: the list is not searched for a Spy
FakeUnchecked(m, impl) ==
    /\ phase = "Setup"
    /\ register(m, newFakeMethodCall(m, impl))
    /\ last' = [op |-> "Fake", m |-> m, fatal |-> FALSE]
    /\ UNCHANGED <<phase, options, tick, ordered, concVars>>

Fake(m, impl) ==
    /\ phase = "Setup"
    /\ IF spiesOf(heap, calls[m]) # <<>>
       THEN /\ last' = [op |-> "Fake", m |-> m, fatal |-> TRUE]
            /\ UNCHANGED <<heap, calls>>
       ELSE /\ register(m, newFakeMethodCall(m, impl))
            /\ last' = [op |-> "Fake", m |-> m, fatal |-> FALSE]
    /\ UNCHANGED <<phase, options, tick, ordered, concVars>>

Matching(id, v) ==
    /\ phase = "Setup"
    /\ heap[id].kind \in {"Stub", "Mock"}
    /\ NumIn(heap[id].method) > 0
    /\ heap' = [heap EXCEPT ![id].matcher = ArgsEql(v)]
    /\ last' = [op |-> "Matching"]
    /\ UNCHANGED <<phase, options, calls, tick, ordered, concVars>>

\* stubbedMethodCall.Matching with a list of raw inputs: the matcher is the
\* one the double's matcher integration, NewMatcherForMethod, builds; a
\* Fatalf ends the test before the matcher is assigned
MatchingList(id, matchers) ==
    LET name == heap[id].method[2]
        r == NewMatcherForMethod(MethodType(name), matchers)
    IN  /\ phase = "Setup"
        /\ heap[id].kind \in {"Stub", "Mock"}
        /\ heap' = IF r.fatal THEN heap ELSE [heap EXCEPT ![id].matcher = r.result]
        /\ last' = [op |-> "MatchingList", method |-> name, matchers |-> matchers,
                    fatal |-> r.fatal, validated |-> r.validated, result |-> r.result]
        /\ UNCHANGED <<phase, options, calls, tick, ordered, concVars>>

\* NewMatcherForMethod called for a method of the interface, as TestMatcher
\* does
MatcherFor(name, matchers) ==
    LET r == NewMatcherForMethod(MethodType(name), matchers)
    IN  /\ phase = "Setup"
        /\ last' = [op |-> "NewMatcherForMethod", method |-> name, matchers |-> matchers,
                    fatal |-> r.fatal, validated |-> r.validated, result |-> r.result]
        /\ UNCHANGED <<phase, options, calls, heap, tick, ordered, concVars>>

\* an Args(l...) matcher is made and handed to Matching of a call of the
\* method, which calls ForMethod of it; matcher is the matcher as ForMethod
\* left it
ArgsForMethod(name, l) ==
    /\ phase = "Setup"
    /\ last' = [op |-> "ForMethod", method |-> name, given |-> Args(l),
                fatal |-> methodFatal(Args(l), MethodType(name)),
                matcher |-> forMethod(Args(l), MethodType(name)), times |-> 1]
    /\ UNCHANGED <<phase, options, calls, heap, tick, ordered, concVars>>

\* the same matcher is handed to Matching of another call or of a view of
\* the Spy of the method: ForMethod is called on it again
ForMethodAgain ==
    /\ last.op = "ForMethod" /\ ~last.fatal
    /\ last' = [last EXCEPT !.fatal = methodFatal(last.matcher, MethodType(last.method)),
                            !.matcher = forMethod(last.matcher, MethodType(last.method)),
                            !.times = @ + 1]
    /\ UNCHANGED <<phase, options, calls, heap, tick, ordered, concVars>>

Returning(id, v) ==
    /\ phase = "Setup"
    /\ heap[id].kind \in {"Stub", "Mock", "Spy"}
    /\ heap' = [heap EXCEPT ![id].returns = Values(v)]
    /\ last' = [op |-> "Returning"]
    /\ UNCHANGED <<phase, options, calls, tick, ordered, concVars>>

Expect(id, e) ==
    /\ phase = "Setup"
    /\ heap[id].kind = "Mock"
    /\ heap' = [heap EXCEPT ![id].expect = e]
    /\ last' = [op |-> "Expect"]
    /\ UNCHANGED <<phase, options, calls, tick, ordered, concVars>>

After(id, a) ==
    /\ phase = "Setup"
    /\ heap[id].kind = "Mock"
    /\ heap[a].kind = "Mock"
    /\ heap' = [heap EXCEPT ![id].after = @ \cup {a}]
    /\ last' = [op |-> "After"]
    /\ UNCHANGED <<phase, options, calls, tick, ordered, concVars>>

\* mutant of ExpectInOrder: the loop stops before i = 1
ExpectInOrderShort(list) ==
    /\ phase = "Setup"
    /\ \A i \in 1..Len(list) : heap[list[i]].kind = "Mock"
    /\ heap' = [id \in DOMAIN heap |->
                 [heap[id] EXCEPT !.after =
                     @ \cup {list[i - 1] : i \in {j \in 3..Len(list) : list[j] = id}}]]
    /\ last' = [op |-> "ExpectInOrder"]
    /\ ordered' = list
    /\ UNCHANGED <<phase, options, calls, tick, concVars>>

\* ExpectInOrder(list...): list[i].After(list[i-1]) for every i > 0
ExpectInOrder(list) ==
    /\ phase = "Setup"
    /\ \A i \in 1..Len(list) : heap[list[i]].kind = "Mock"
    /\ heap' = [id \in DOMAIN heap |->
                 [heap[id] EXCEPT !.after =
                     @ \cup {list[i - 1] : i \in {j \in 2..Len(list) : list[j] = id}}]]
    /\ last' = [op |-> "ExpectInOrder"]
    /\ ordered' = list
    /\ UNCHANGED <<phase, options, calls, tick, concVars>>

(***************************************************************************)
(* Exercise: TestDouble.Invoke, method.invoke and method.match.            *)
(***************************************************************************)
\* mutant of tracePanic: the deferred function recovers the panic and does
\* not raise it again
tracePanicSwallowed(traced) ==
    [panic |-> ~traced, logged |-> IF traced THEN "panic" ELSE "none"]

\* a panic of matched.spy in method.invoke: with trace the deferred function
\* recovers it, logs it and panics again; without trace nothing recovers it
tracePanic(traced) ==
    [panic |-> TRUE, logged |-> IF traced THEN "panic" ELSE "none"]

\* matched.spy returned: with trace the call and its outcome are logged
traceCalled(traced) ==
    [panic |-> FALSE, logged |-> IF traced THEN "called" ELSE "none"]

\* what method.invoke does with the outcome of matched.spy(args)
outcome(m, args, c) ==
    IF c.kind = "Fake" /\ implPanics(c.impl, args)
    THEN [returns |-> <<>>] @@ tracePanic(trace[receiver(m)])
    ELSE [returns |-> spyReturns(c, args)] @@ traceCalled(trace[receiver(m)])

dispatch(m, args, id, c, vivified) ==
    /\ c.kind = "Mock" => c.count < MaxCount
    /\ isSpyMethodCall(c) => tick < MaxTick
    /\ tick' = IF isSpyMethodCall(c) THEN tick + 1 ELSE tick
    /\ last' = [op |-> "Invoke", m |-> m, args |-> args, matched |-> id,
                vivified |-> vivified, fatal |-> FALSE,
                returns |-> outcome(m, args, c).returns,
                panic |-> outcome(m, args, c).panic,
                logged |-> outcome(m, args, c).logged]

\* mutant of Invoke: a mock that the loop of match scans and passes over
\* counts the call as well
InvokeCounting(m, args) ==
    LET i == matchIndex(heap, calls[m], args)
        d == defaultCallFor(defaultCall[receiver(m)], m)
        scanned == {calls[m][j] : j \in 1..(IF i = 0 THEN Len(calls[m]) ELSE i - 1)}
        counted == [id \in DOMAIN heap |->
                       IF id \in scanned /\ heap[id].kind = "Mock"
                       THEN [heap[id] EXCEPT !.count = @ + 1] ELSE heap[id]]
    IN  /\ phase' = "Exercise"
        /\ UNCHANGED <<options, ordered, concVars>>
        /\ IF i # 0
           THEN /\ dispatch(m, args, calls[m][i], heap[calls[m][i]], FALSE)
                /\ heap' = [counted EXCEPT ![calls[m][i]] = spy(@, args, tick)]
                /\ UNCHANGED calls
           ELSE IF d = NilCall \/ ~matches(heap, d, args)
           THEN /\ last' = [op |-> "Invoke", m |-> m, args |-> args, matched |-> 0,
                            vivified |-> TRUE, fatal |-> TRUE, returns |-> <<>>,
                            panic |-> FALSE, logged |-> "none"]
                /\ UNCHANGED <<heap, calls, tick>>
           ELSE /\ dispatch(m, args, Len(heap) + 1, d, TRUE)
                /\ register(m, spy([d EXCEPT !.vivified = TRUE], args, tick))

Invoke(m, args) ==
    LET i == matchIndex(heap, calls[m], args)
        d == defaultCallFor(defaultCall[receiver(m)], m)
    IN  /\ phase' = "Exercise"
        /\ UNCHANGED <<options, ordered, concVars>>
        /\ IF i # 0
           THEN /\ dispatch(m, args, calls[m][i], heap[calls[m][i]], FALSE)
                /\ heap' = [heap EXCEPT ![calls[m][i]] = spy(@, args, tick)]
                /\ UNCHANGED calls
           ELSE IF d = NilCall \/ ~matches(heap, d, args)
           THEN /\ last' = [op |-> "Invoke", m |-> m, args |-> args, matched |-> 0,
                            vivified |-> TRUE, fatal |-> TRUE, returns |-> <<>>,
                            panic |-> FALSE, logged |-> "none"]
                /\ UNCHANGED <<heap, calls, tick>>
           ELSE /\ dispatch(m, args, Len(heap) + 1, d, TRUE)
                /\ register(m, spy([d EXCEPT !.vivified = TRUE], args, tick))

(***************************************************************************)
(* Verify: TestDouble.Verify reports, through Errorf, every call whose     *)
(* verify fails; the methods map is visited in an unspecified order.       *)
(***************************************************************************)
\* MethodCall.verify: does the call report an error
verify(c) == c.kind = "Mock" /\ ~met(c)

\* mutant of verifyCalls: the loop returns at the first call that fails
verifyCallsFirst(h, cs) ==
    LET failed == SelectSeq(cs, LAMBDA id : verify(h[id]))
    IN  IF failed = <<>> THEN <<>> ELSE <<Head(failed)>>

\* the inner loop of Verify over method.calls
verifyCalls(h, cs) == SelectSeq(cs, LAMBDA id : verify(h[id]))

RECURSIVE verifyMethods(_, _, _)
verifyMethods(h, cl, order) ==
    IF order = <<>> THEN <<>>
    ELSE verifyCalls(h, cl[Head(order)]) \o verifyMethods(h, cl, Tail(order))

Orders(S) == {o \in [1..Cardinality(S) -> S] : \A x \in S : \E i \in DOMAIN o : o[i] = x}

Verify(d) ==
    /\ \E order \in Orders(MethodsOf(d)) :
          last' = [op |-> "Verify", d |-> d, errors |-> verifyMethods(heap, calls, order)]
    /\ UNCHANGED <<phase, options, calls, heap, tick, ordered, concVars>>


(***************************************************************************)
(* RecordedCalls: the views of a spy's log.  A view is the sequence of     *)
(* recorded calls it holds.                                                *)
(***************************************************************************)
\* spyMethodCall.Matching with Args(Eql(v))
CallsMatching(recorded, v) == SelectSeq(recorded, LAMBDA r : Matches(ArgsEql(v), r.args))

\* spyMethodCall.Slice, for 0 <= from <= to
CallsSlice(recorded, from, to) ==
    LET l == Len(recorded)
    IN  IF from > l THEN <<>>
        ELSE IF to > l THEN SubSeq(recorded, from + 1, l)
        ELSE SubSeq(recorded, from + 1, to)

\* sort.Search(n, f) with f(i) = recorded[i].tick > lastTick, indexes from 0
RECURSIVE Search(_, _, _, _)
Search(recorded, lastTick, i, j) ==
    IF i < j
    THEN LET h == (i + j) \div 2
         IN  IF ~(recorded[h + 1].tick > lastTick)
             THEN Search(recorded, lastTick, h + 1, j)
             ELSE Search(recorded, lastTick, i, h)
    ELSE i

\* mutant of CallsAfter: lastTick is the tick of the first call of others
CallsAfterFirst(recorded, others) ==
    IF Len(others) > 0
    THEN LET lastTick == others[1].tick
             partitionIndex == Search(recorded, lastTick, 0, Len(recorded))
         IN  IF partitionIndex < Len(recorded)
             THEN SubSeq(recorded, partitionIndex + 1, Len(recorded))
             ELSE <<>>
    ELSE recorded

\* spyMethodCall.After
CallsAfter(recorded, others) ==
    IF Len(others) > 0
    THEN LET lastTick == others[Len(others)].tick
             partitionIndex == Search(recorded, lastTick, 0, Len(recorded))
         IN  IF partitionIndex < Len(recorded)
             THEN SubSeq(recorded, partitionIndex + 1, Len(recorded))
             ELSE <<>>
    ELSE recorded

\* the views a test derives from a log with Matching, Slice and both
SlicesOf(recorded) ==
    {CallsSlice(recorded, from, to) : from \in 0..(Len(recorded) + 1), to \in 0..(Len(recorded) + 1)}

ViewsOf(recorded) ==
    {recorded} \cup SlicesOf(recorded)
       \cup {CallsMatching(s, v) : s \in SlicesOf(recorded), v \in ArgValues}

QueryAfter(id, other) ==
    /\ isSpyMethodCall(heap[id])
    /\ isSpyMethodCall(heap[other])
    /\ \E v \in ViewsOf(heap[id].recorded), o \in ViewsOf(heap[other].recorded) :
          last' = [op |-> "CallsAfter", v |-> v, o |-> o, result |-> CallsAfter(v, o)]
    /\ UNCHANGED <<phase, options, calls, heap, tick, ordered, concVars>>

\* the slice expression s[lo:hi] for 0 <= lo: it panics unless lo <= hi <= len(s)
reslice(s, lo, hi) ==
    IF lo <= hi /\ hi <= Len(s)
    THEN [fatal |-> FALSE, panic |-> FALSE, calls |-> SubSeq(s, lo + 1, hi)]
    ELSE [fatal |-> FALSE, panic |-> TRUE, calls |-> <<>>]

\* mutant of Slice: to is not clamped to the length of the view
SliceUnclamped(recorded, from, to) ==
    LET l == Len(recorded)
    IN  IF from < 0 \/ to < 0 \/ from > to
        THEN [fatal |-> TRUE, panic |-> FALSE, calls |-> <<>>]
        ELSE IF from > l THEN [fatal |-> FALSE, panic |-> FALSE, calls |-> <<>>]
        ELSE reslice(recorded, from, to)

\* spyMethodCall.Slice for any from and to: Fatalf ends the test, a slice
\* expression out of range panics
Slice(recorded, from, to) ==
    LET l == Len(recorded)
    IN  IF from < 0 \/ to < 0 \/ from > to
        THEN [fatal |-> TRUE, panic |-> FALSE, calls |-> <<>>]
        ELSE IF from > l THEN [fatal |-> FALSE, panic |-> FALSE, calls |-> <<>>]
        ELSE IF to > l THEN reslice(recorded, from, l)
        ELSE reslice(recorded, from, to)

QuerySlice(id) ==
    /\ isSpyMethodCall(heap[id])
    /\ \E v \in ViewsOf(heap[id].recorded) :
          \E from \in (0 - 1)..(Len(v) + 2), to \in (0 - 1)..(Len(v) + 2) :
             last' = [op |-> "Slice", v |-> v, from |-> from, to |-> to,
                      result |-> Slice(v, from, to)]
    /\ UNCHANGED <<phase, options, calls, heap, tick, ordered, concVars>>

(***************************************************************************)
(* The slices behind the logs.  recorded is a Go slice: the spyMethodCall  *)
(* has, next to the entries, the array the slice points into (arr, 0 for   *)
(* none), the offset of the slice in it and its capacity.  A view made by  *)
(* Slice or After reslices the log and shares its array; Matching appends  *)
(* to a slice of its own.  A view is a spyMethodCall that no method lists. *)
(***************************************************************************)
NilSlice == [arr |-> 0, off |-> 0, cap |-> 0]

\* the spyMethodCall c with the slice s as its recorded
withSlice(c, s) == s @@ c

\* growslice for a full slice of pointers: capacity 1, then twice as much
grown(cap) == IF cap = 0 THEN 1 ELSE 2 * cap

\* the capacity that appends to a nil slice reach for n entries
RECURSIVE capFor(_, _)
capFor(n, cap) == IF n <= cap THEN cap ELSE capFor(n, grown(cap))

\* a new array
newArray(h) ==
    1 + (CHOOSE a \in {0} \cup {h[i].arr : i \in DOMAIN h} :
            \A i \in DOMAIN h : h[i].arr <= a)

\* c.recorded[lo:], the slice without its entries
resliced(c, lo) == [arr |-> c.arr, off |-> c.off + lo, cap |-> c.cap - lo]

\* c.recorded = append(c.recorded, r) for the object id of the heap h: with
\* room in the array the entry is written behind the slice, and every slice
\* over that cell of the array shows it; a full slice moves to a new array
appendRecorded(h, id, r) ==
    LET c == h[id]
        cell == c.off + Len(c.recorded) + 1
    IN  IF Len(c.recorded) < c.cap
        THEN [o \in DOMAIN h |->
                IF o = id THEN [c EXCEPT !.recorded = Append(@, r)]
                ELSE IF /\ h[o].arr = c.arr
                        /\ h[o].off < cell /\ cell <= h[o].off + Len(h[o].recorded)
                     THEN [h[o] EXCEPT !.recorded[cell - h[o].off] = r]
                     ELSE h[o]]
        ELSE [h EXCEPT ![id] =
                 withSlice([c EXCEPT !.recorded = Append(@, r)],
                           [arr |-> newArray(h), off |-> 0, cap |-> grown(c.cap)])]

\* spyMethodCall.newSubset
newSubset(c, subsetCalls, s) ==
    withSlice([newSpyMethodCall(c.method) EXCEPT !.recorded = subsetCalls], s)

\* TestDouble.Spy for a method without calls; recorded is []*recordedCall{}
SpySliced(m) ==
    /\ calls[m] = <<>>
    /\ register(m, withSlice(newSpyMethodCall(m), NilSlice))
    /\ last' = [op |-> "Spy", m |-> m, result |-> Len(heap) + 1]
    /\ UNCHANGED <<phase, options, tick, ordered, concVars>>

\* mutant of InvokeSpied: the views of the log record the invocation too
InvokeSpiedViews(m, args) ==
    LET id == calls[m][1]
    IN  /\ calls[m] # <<>> /\ isSpyMethodCall(heap[id])
        /\ phase' = "Exercise"
        /\ tick' = newRecordedCall(args, tick).tick
        /\ last' = [op |-> "Invoke", m |-> m, matched |-> id]
        /\ heap' = [o \in DOMAIN heap |->
                      stubSpy([heap[o] EXCEPT
                                  !.recorded = Append(@, newRecordedCall(args, tick))])]
        /\ UNCHANGED <<options, calls, ordered, concVars>>

\* TestDouble.Invoke of a method whose first call is its Spy
InvokeSpied(m, args) ==
    LET id == calls[m][1]
        h  == appendRecorded(heap, id, newRecordedCall(args, tick))
    IN  /\ calls[m] # <<>> /\ isSpyMethodCall(heap[id])
        /\ phase' = "Exercise"
        /\ tick' = newRecordedCall(args, tick).tick
        /\ last' = [op |-> "Invoke", m |-> m, matched |-> id]
        /\ heap' = [h EXCEPT ![id] = stubSpy(@)]
        /\ UNCHANGED <<options, calls, ordered, concVars>>

\* c.Slice(from, to) for 0 <= from <= to
ViewSlice(id, from, to) ==
    LET c == heap[id]
        s == IF from > Len(c.recorded) THEN NilSlice ELSE resliced(c, from)
    IN  /\ isSpyMethodCall(c)
        /\ heap' = Append(heap, newSubset(c, CallsSlice(c.recorded, from, to), s))
        /\ last' = [op |-> "Slice"]
        /\ UNCHANGED <<phase, options, calls, tick, ordered, concVars>>

\* c.Matching(Args(Eql(v))): subsetCalls grows by append from nil
ViewMatching(id, v) ==
    LET c == heap[id]
        subsetCalls == CallsMatching(c.recorded, v)
        s == IF subsetCalls = <<>> THEN NilSlice
             ELSE [arr |-> newArray(heap), off |-> 0, cap |-> capFor(Len(subsetCalls), 0)]
    IN  /\ isSpyMethodCall(c)
        /\ heap' = Append(heap, newSubset(c, subsetCalls, s))
        /\ last' = [op |-> "Matching"]
        /\ UNCHANGED <<phase, options, calls, tick, ordered, concVars>>

\* c.After(other)
ViewAfter(id, other) ==
    LET c == heap[id]
        recorded == heap[other].recorded
        partitionIndex ==
            Search(c.recorded, recorded[Len(recorded)].tick, 0, Len(c.recorded))
        s == IF Len(recorded) > 0
             THEN IF partitionIndex < Len(c.recorded)
                  THEN resliced(c, partitionIndex) ELSE NilSlice
             ELSE resliced(c, 0)
    IN  /\ isSpyMethodCall(c) /\ isSpyMethodCall(heap[other])
        /\ heap' = Append(heap, newSubset(c, CallsAfter(c.recorded, recorded), s))
        /\ last' = [op |-> "After"]
        /\ UNCHANGED <<phase, options, calls, tick, ordered, concVars>>

(***************************************************************************)
(* Goroutines.  A goroutine of the test is idle, or inside Invoke of the   *)
(* method m, or inside a Receive it called itself (m is NoMethod).  timer  *)
(* is the timer channel that Receive of a returnChannel obtained from the  *)
(* sleeper: armed, then fired.                                             *)
(***************************************************************************)
Goroutines == {"g1", "g2"}

NoMethod == <<"", "">>

idle == [pc |-> "idle", m |-> NoMethod, args |-> <<>>, matched |-> 0, tick |-> 0,
         timer |-> "off", returns |-> <<>>, err |-> "nil"]

ErrClosed == "requested values from closed return channel"

ErrTimeout == "timed out waiting for return channel to provide values"

ErrNoValues == "no available values"

\* what a Receive returns: the tuple and a nil error, or no tuple and an error
Returned(tuple) == [returns |-> tuple, err |-> "nil"]

Failed(err) == [returns |-> <<>>, err |-> err]

\* the goroutine g once its Receive has returned res: a Receive the test
\* called is over, a Receive called by stubbedMethodCall.spy goes back to
\* method.invoke
received(g, res) ==
    IF procs[g].m = NoMethod THEN idle
    ELSE [procs[g] EXCEPT !.pc = "return", !.timer = "off",
                          !.returns = res.returns, !.err = res.err]

\* the entry of got for the Receive of g that returned res
gotEntry(g, res) == [g |-> g, returns |-> res.returns, err |-> res.err]

(***************************************************************************)
(* returnChannel.  rc.values is a Go channel: buf holds the buffered       *)
(* tuples (at most cap), sendq the tuple of a Send that blocks, closed     *)
(* whether the channel was closed.  A goroutine whose select found no case *)
(* ready is parked on the channel and on its timer; the first of the two   *)
(* that becomes ready wakes it with its outcome.                           *)
(***************************************************************************)
NewReturnChannel(bufSize) ==
    [cap |-> bufSize, buf |-> <<>>, sendq |-> <<>>, closed |-> FALSE]

parked == {g \in Goroutines : procs[g].pc = "parked"}

\* the tuple the n-th Send of the test sends
toSend(n) == <<n>>

\* returnChannel.Send: rc.values <- returnValues
Send ==
    /\ sender.pc = "ready"
    /\ ~rc.closed
    /\ LET tuple == toSend(sender.n + 1)
       IN  IF parked # {}
           THEN /\ \E g \in parked :
                     /\ procs' = [procs EXCEPT ![g] = received(g, Returned(tuple))]
                     /\ got' = Append(got, gotEntry(g, Returned(tuple)))
                /\ sender' = [sender EXCEPT !.n = @ + 1]
                /\ UNCHANGED rc
           ELSE IF Len(rc.buf) < rc.cap
           THEN /\ rc' = [rc EXCEPT !.buf = Append(@, tuple)]
                /\ sender' = [sender EXCEPT !.n = @ + 1]
                /\ UNCHANGED <<procs, got>>
           ELSE /\ rc' = [rc EXCEPT !.sendq = <<tuple>>]
                /\ sender' = [sender EXCEPT !.pc = "blocked", !.n = @ + 1]
                /\ UNCHANGED <<procs, got>>
    /\ UNCHANGED <<phase, options, calls, heap, tick, last, ordered, mutex, seqs>>

\* returnChannel.Close: close(rc.values) wakes every parked receiver
Close ==
    /\ sender.pc = "ready"
    /\ ~rc.closed
    /\ rc' = [rc EXCEPT !.closed = TRUE]
    /\ sender' = [sender EXCEPT !.pc = "done", !.closedAt = Len(got)]
    /\ \E order \in Orders(parked) :
          /\ got' = got \o [i \in DOMAIN order |-> gotEntry(order[i], Failed(ErrClosed))]
          /\ procs' = [g \in Goroutines |->
                         IF g \in parked THEN received(g, Failed(ErrClosed)) ELSE procs[g]]
    /\ UNCHANGED <<phase, options, calls, heap, tick, last, ordered, mutex, seqs>>

\* returnChannel.Receive, entering the select: rc.sleeper(rc.timeout) is
\* evaluated and gives the timer channel
selectEnter(g) ==
    procs' = [procs EXCEPT ![g].pc = "select", ![g].timer = "armed"]

ChannelReceive(g) ==
    /\ procs[g].pc = "idle"
    /\ selectEnter(g)
    /\ UNCHANGED <<phase, options, calls, heap, tick, last, ordered,
                   mutex, rc, sender, got, seqs>>

\* the timer of the Receive of g fires; a parked g is woken by it
TimerFire(g) ==
    /\ procs[g].timer = "armed"
    /\ IF procs[g].pc = "parked"
       THEN /\ procs' = [procs EXCEPT ![g] = received(g, Failed(ErrTimeout))]
            /\ got' = Append(got, gotEntry(g, Failed(ErrTimeout)))
       ELSE /\ procs' = [procs EXCEPT ![g].timer = "fired"]
            /\ UNCHANGED got
    /\ UNCHANGED <<phase, options, calls, heap, tick, last, ordered,
                   mutex, rc, sender, seqs>>

\* case generatedReturns, ok := <-rc.values can proceed
chanReady == rc.buf # <<>> \/ rc.sendq # <<>> \/ rc.closed

\* mutant of chanReceive: a closed channel gives the error though tuples are
\* left in its buffer
chanReceiveClosedFirst ==
    IF rc.closed THEN [res |-> Failed(ErrClosed), rc |-> rc]
    ELSE IF rc.buf # <<>>
    THEN [res |-> Returned(Head(rc.buf)),
          rc |-> [rc EXCEPT !.buf = Tail(rc.buf) \o rc.sendq, !.sendq = <<>>]]
    ELSE [res |-> Returned(Head(rc.sendq)), rc |-> [rc EXCEPT !.sendq = <<>>]]

\* mutant of chanReceive: the newest buffered tuple is received first
chanReceiveNewest ==
    IF rc.buf # <<>>
    THEN [res |-> Returned(rc.buf[Len(rc.buf)]),
          rc |-> [rc EXCEPT !.buf = SubSeq(rc.buf, 1, Len(rc.buf) - 1) \o rc.sendq,
                            !.sendq = <<>>]]
    ELSE IF rc.sendq # <<>>
    THEN [res |-> Returned(Head(rc.sendq)), rc |-> [rc EXCEPT !.sendq = <<>>]]
    ELSE [res |-> Failed(ErrClosed), rc |-> rc]

\* <-rc.values when it can proceed: the tuple received (ok) or the closed
\* channel error, and the channel afterwards
chanReceive ==
    IF rc.buf # <<>>
    THEN [res |-> Returned(Head(rc.buf)),
          rc |-> [rc EXCEPT !.buf = Tail(rc.buf) \o rc.sendq, !.sendq = <<>>]]
    ELSE IF rc.sendq # <<>>
    THEN [res |-> Returned(Head(rc.sendq)), rc |-> [rc EXCEPT !.sendq = <<>>]]
    ELSE [res |-> Failed(ErrClosed), rc |-> rc]

\* mutant of selectChoices: a timer that fired before the select is not seen
selectChoicesNoTimer(g) == IF chanReady THEN {"values"} ELSE {}

\* the cases of the select that are ready: it takes one of them, any one
selectChoices(g) ==
    (IF chanReady THEN {"values"} ELSE {})
       \cup (IF procs[g].timer = "fired" THEN {"timer"} ELSE {})

\* the select of returnChannel.Receive: it takes a ready case, or parks
Select(g) ==
    /\ procs[g].pc = "select"
    /\ IF selectChoices(g) = {}
       THEN /\ procs' = [procs EXCEPT ![g].pc = "parked"]
            /\ UNCHANGED <<rc, sender, got>>
       ELSE \E case \in selectChoices(g) :
              IF case = "values"
              THEN /\ procs' = [procs EXCEPT ![g] = received(g, chanReceive.res)]
                   /\ got' = Append(got, gotEntry(g, chanReceive.res))
                   /\ rc' = chanReceive.rc
                   /\ sender' = IF rc.sendq # <<>> THEN [sender EXCEPT !.pc = "ready"]
                                ELSE sender
              ELSE /\ procs' = [procs EXCEPT ![g] = received(g, Failed(ErrTimeout))]
                   /\ got' = Append(got, gotEntry(g, Failed(ErrTimeout)))
                   /\ UNCHANGED <<rc, sender>>
    /\ UNCHANGED <<phase, options, calls, heap, tick, last, ordered, mutex, seqs>>

(***************************************************************************)
(* Concurrent invocations.  method.invoke locks m.mutex, matches, lets the *)
(* matched call spy (count, record, receive the return values) and unlocks *)
(* when it returns or fails (defer).  Each goroutine takes these steps one *)
(* at a time, interleaved with the steps of the others.                    *)
(***************************************************************************)
\* Returning(rc): the return values of the call are the return channel
ChannelReturns == [type |-> "Channel", values |-> <<>>]

ReturningChannel(id) ==
    /\ phase = "Setup"
    /\ heap[id].kind \in {"Stub", "Mock", "Spy"}
    /\ heap' = [heap EXCEPT ![id].returns = ChannelReturns]
    /\ last' = [op |-> "Returning"]
    /\ UNCHANGED <<phase, options, calls, tick, ordered, concVars>>

ErrNoCall == "no call"

\* mutant of mutexOf: the methods of a double share one mutex
mutexOfReceiver(m) == CHOOSE x \in MethodsOf(receiver(m)) : TRUE

\* m.mutex: every method has a mutex of its own
mutexOf(m) == m

\* mutant of Lock: Lock returns though the mutex is held
LockUnguarded(g, m) == mutex' = [mutex EXCEPT ![mutexOf(m)] = g]

\* m.mutex.Lock() returns once the mutex is free, and then g holds it
Lock(g, m) ==
    /\ mutex[mutexOf(m)] = "free"
    /\ mutex' = [mutex EXCEPT ![mutexOf(m)] = g]

\* m.mutex.Unlock()
Unlock(g, m) == mutex' = [mutex EXCEPT ![mutexOf(m)] = "free"]

\* a goroutine calls TestDouble.Invoke(m, args) and reaches m.mutex.Lock()
InvokeCall(g, m, args) ==
    /\ procs[g].pc = "idle"
    /\ procs' = [procs EXCEPT ![g] = [idle EXCEPT !.pc = "lock", !.m = m, !.args = args]]
    /\ phase' = "Exercise"
    /\ UNCHANGED <<options, calls, heap, tick, last, ordered,
                   mutex, rc, sender, got, seqs>>

InvokeLock(g) ==
    /\ procs[g].pc = "lock"
    /\ Lock(g, procs[g].m)
    /\ procs' = [procs EXCEPT ![g].pc = "match"]
    /\ UNCHANGED <<phase, options, calls, heap, tick, last, ordered,
                   rc, sender, got, seqs>>

\* m.match(args) and the start of matched.spy(args): a Stub or Mock counts
\* and goes on to receive its return values, a Spy or Fake makes the
\* recorded call, which draws the tick with one atomic add; procs[g].tick
\* is the value of the counter that add found
InvokeMatch(g) ==
    LET m    == procs[g].m
        args == procs[g].args
        i    == matchIndex(heap, calls[m], args)
        d    == defaultCallFor(defaultCall[receiver(m)], m)
        id   == IF i # 0 THEN calls[m][i] ELSE Len(heap) + 1
        c    == IF i # 0 THEN heap[id] ELSE [d EXCEPT !.vivified = TRUE]
        h    == IF i # 0 THEN heap ELSE Append(heap, c)
    IN  /\ procs[g].pc = "match"
        /\ IF i = 0 /\ (d = NilCall \/ ~matches(heap, d, args))
           THEN /\ procs' = [procs EXCEPT ![g].pc = "return", ![g].err = ErrNoCall]
                /\ UNCHANGED <<heap, calls, tick>>
           ELSE /\ calls' = IF i # 0 THEN calls ELSE addMethodCall(m, id)
                /\ IF isSpyMethodCall(c)
                   THEN /\ heap' = h
                        /\ tick' = newRecordedCall(args, tick).tick
                        /\ procs' = [procs EXCEPT ![g].pc = "record", ![g].matched = id,
                                                  ![g].tick = tick]
                   ELSE /\ heap' = [h EXCEPT ![id] = spy(c, args, tick)]
                        /\ tick' = tick
                        /\ procs' = [procs EXCEPT ![g].pc = "receive", ![g].matched = id]
        /\ UNCHANGED <<phase, options, last, ordered, mutex, rc, sender, got, seqs>>

\* c.recorded = append(c.recorded, newRecordedCall(args))
InvokeRecord(g) ==
    /\ procs[g].pc = "record"
    /\ heap' = [heap EXCEPT ![procs[g].matched] = spy(@, procs[g].args, procs[g].tick)]
    /\ procs' = [procs EXCEPT ![g].pc = "receive"]
    /\ UNCHANGED <<phase, options, calls, tick, last, ordered,
                   mutex, rc, sender, got, seqs>>

\* matched, err := m.match(args) as a step of its own: the call is chosen,
\* the default call is made and added when no call matches, and nothing is
\* counted or recorded yet
InvokeMatched(g) ==
    LET m    == procs[g].m
        args == procs[g].args
        i    == matchIndex(heap, calls[m], args)
        d    == defaultCallFor(defaultCall[receiver(m)], m)
        id   == IF i # 0 THEN calls[m][i] ELSE Len(heap) + 1
    IN  /\ procs[g].pc = "match"
        /\ IF i = 0 /\ (d = NilCall \/ ~matches(heap, d, args))
           THEN /\ procs' = [procs EXCEPT ![g].pc = "return", ![g].err = ErrNoCall]
                /\ UNCHANGED <<heap, calls>>
           ELSE /\ calls' = IF i # 0 THEN calls ELSE addMethodCall(m, id)
                /\ heap' = IF i # 0 THEN heap ELSE Append(heap, [d EXCEPT !.vivified = TRUE])
                /\ procs' = [procs EXCEPT ![g].pc = "spy", ![g].matched = id]
        /\ UNCHANGED <<phase, options, tick, last, ordered, mutex, rc, sender, got, seqs>>

\* mutant of InvokeSpy: nothing is counted before Receive
InvokeSpyUncounted(g) ==
    /\ procs[g].pc = "spy"
    /\ procs' = [procs EXCEPT ![g].pc = "receive"]
    /\ UNCHANGED <<phase, options, calls, heap, tick, last, ordered, mutex, rc,
                   sender, got, seqs>>

\* matched.spy(args), the step after m.match: a Mock counts, a Spy or Fake
\* appends the recorded call
InvokeSpy(g) ==
    LET id == procs[g].matched
    IN  /\ procs[g].pc = "spy"
        /\ heap' = [heap EXCEPT ![id] = spy(@, procs[g].args, tick)]
        /\ tick' = IF isSpyMethodCall(heap[id])
                   THEN newRecordedCall(procs[g].args, tick).tick ELSE tick
        /\ procs' = [procs EXCEPT ![g].pc = "receive"]
        /\ UNCHANGED <<phase, options, calls, last, ordered, mutex, rc, sender, got, seqs>>

\* c.returns.Receive(), or the implementation of a Fake: fixed values are
\* returned at once, the return channel enters its select, a Sequence its
\* once.Do
InvokeReceive(g) ==
    LET c == heap[procs[g].matched]
    IN  /\ procs[g].pc = "receive"
        /\ IF c.kind # "Fake" /\ c.returns = ChannelReturns
           THEN selectEnter(g)
           ELSE IF c.kind # "Fake" /\ c.returns.type = "Sequence"
           THEN procs' = [procs EXCEPT ![g].pc = "once"]
           ELSE procs' = [procs EXCEPT ![g].pc = "return",
                                       ![g].returns = spyReturns(c, procs[g].args)]
        /\ UNCHANGED <<phase, options, calls, heap, tick, last, ordered,
                       mutex, rc, sender, got, seqs>>

\* mutant of InvokeReturn: Fatalf comes back and invoke returns to its
\* caller whatever spy gave
InvokeReturnAlways(g) ==
    /\ procs[g].pc = "return"
    /\ Unlock(g, procs[g].m)
    /\ procs' = [procs EXCEPT ![g] = idle]
    /\ UNCHANGED <<phase, options, calls, heap, tick, last, ordered,
                   rc, sender, got, seqs>>

\* does the implementation of the Fake that g reached panic on its arguments
panics(g) ==
    /\ procs[g].pc = "receive"
    /\ heap[procs[g].matched].kind = "Fake"
    /\ implPanics(heap[procs[g].matched].impl, procs[g].args)

\* c.impl.Call(args) of a Fake panics: the panic starts to unwind invoke
InvokeFakePanics(g) ==
    /\ panics(g)
    /\ procs' = [procs EXCEPT ![g].pc = "panic"]
    /\ UNCHANGED <<phase, options, calls, heap, tick, last, ordered,
                   mutex, rc, sender, got, seqs>>

\* mutant of InvokeUnwind: the panic leaves invoke without the deferred Unlock
InvokeUnwindLocked(g) ==
    /\ procs[g].pc = "panic"
    /\ procs' = [procs EXCEPT ![g].pc = "panicked"]
    /\ UNCHANGED <<phase, options, calls, heap, tick, last, ordered,
                   mutex, rc, sender, got, seqs>>

\* the panic unwinds invoke: the deferred m.mutex.Unlock() runs and the
\* panic goes on to the caller
InvokeUnwind(g) ==
    /\ procs[g].pc = "panic"
    /\ Unlock(g, procs[g].m)
    /\ procs' = [procs EXCEPT ![g].pc = "panicked"]
    /\ UNCHANGED <<phase, options, calls, heap, tick, last, ordered,
                   rc, sender, got, seqs>>

\* TestDouble.Stub called while the double is exercised: the registration
\* takes m.mutex for the append
StubLocked(m) ==
    /\ mutex[mutexOf(m)] = "free"
    /\ register(m, newStubbedMethodCall(m))
    /\ last' = [op |-> "Stub"]
    /\ UNCHANGED <<phase, options, tick, ordered, concVars>>

\* the goroutine after t.Fatalf: FailNow marks the test failed and ends the
\* goroutine with runtime.Goexit, invoke never returns to its caller
exited(p) == [p EXCEPT !.pc = "exited", !.timer = "off"]

\* method.invoke returns the tuple to its caller, or fails the test with
\* Fatalf when spy gave an error; the deferred Unlock runs in both cases
InvokeReturn(g) ==
    /\ procs[g].pc = "return"
    /\ Unlock(g, procs[g].m)
    /\ procs' = [procs EXCEPT ![g] = IF procs[g].err # "nil" THEN exited(procs[g]) ELSE idle]
    /\ UNCHANGED <<phase, options, calls, heap, tick, last, ordered,
                   rc, sender, got, seqs>>

(***************************************************************************)
(* A Fake whose implementation calls Invoke on the double.  The            *)
(* implementations given here return the length of their argument, except  *)
(* that for "second" they return what d1.Invoke of call, with "first", or  *)
(* of other gives.  The frame of the invocation that runs the              *)
(* implementation is kept in the field outer of the frame of the           *)
(* invocation it makes.                                                    *)
(***************************************************************************)
RelayCallImpl == "relays to call"

RelayOtherImpl == "relays to other"

RelayImpls == {RelayCallImpl, RelayOtherImpl}

\* the method the implementation invokes, and the arguments it gives
relayed(impl) == IF impl = RelayCallImpl THEN <<"d1", "call">> ELSE <<"d1", "other">>

relayedArgs(impl) == IF impl = RelayCallImpl THEN <<"first">> ELSE <<>>

\* g is about to run an implementation that calls Invoke
relays(g) ==
    /\ procs[g].pc = "receive"
    /\ heap[procs[g].matched].kind = "Fake"
    /\ heap[procs[g].matched].impl \in RelayImpls
    /\ procs[g].args = <<"second">>

\* g is inside an invocation made by the implementation of a Fake
nested(g) == "outer" \in DOMAIN procs[g]

\* c.impl.Call(inArgs): the implementation calls d.Invoke and reaches
\* m.mutex.Lock() of the method it names
FakeInvokes(g) ==
    LET impl == heap[procs[g].matched].impl
    IN  /\ relays(g)
        /\ procs' = [procs EXCEPT ![g] =
                        [outer |-> procs[g]]
                           @@ [idle EXCEPT !.pc = "lock", !.m = relayed(impl),
                                           !.args = relayedArgs(impl)]]
        /\ UNCHANGED <<phase, options, calls, heap, tick, last, ordered,
                       mutex, rc, sender, got, seqs>>

\* the invocation the implementation made is over: its deferred Unlock runs
\* and the implementation returns what it got, which spy hands to the invoke
\* that called it; after t.Fatalf the goroutine ends, and Goexit runs the
\* deferred Unlock of that invoke as well
NestedReturn(g) ==
    /\ procs[g].pc = "return"
    /\ nested(g)
    /\ IF procs[g].err = "nil"
       THEN /\ Unlock(g, procs[g].m)
            /\ procs' = [procs EXCEPT ![g] =
                            [procs[g].outer EXCEPT !.pc = "return",
                                                   !.returns = procs[g].returns]]
       ELSE /\ mutex' = [m \in Methods |->
                            IF m \in {mutexOf(procs[g].m), mutexOf(procs[g].outer.m)}
                            THEN "free" ELSE mutex[m]]
            /\ procs' = [procs EXCEPT ![g] = exited(procs[g])]
    /\ UNCHANGED <<phase, options, calls, heap, tick, last, ordered,
                   rc, sender, got, seqs>>

(***************************************************************************)
(* sequentialReturnValues.  A Sequence source names its object by its      *)
(* index in seqs; seqs[1] is the Sequence the test receives from.  rvChan  *)
(* is nil until run made the unbuffered relay channel, then open, then     *)
(* closed; once is the sync.Once; worker is the goroutine run started: it  *)
(* asks source i for a tuple, or waits for the Sequence that is source i,  *)
(* or offers the tuple out on rvChan.  made counts the relay channels and  *)
(* workers run created, asked the Receive calls made on the sources.       *)
(***************************************************************************)
SequenceOf(j) == [type |-> "Sequence", values |-> <<j>>]

NoWorker == [pc |-> "none", i |-> 0, out |-> <<>>]

Sequence(values) ==
    [values |-> values, rvChan |-> "nil", once |-> "new", worker |-> NoWorker,
     made |-> 0, asked |-> 0]

\* Returning(Sequence(...)): the return values of the call are the Sequence
\* seqs[1]
ReturningSequence(id) ==
    /\ phase = "Setup"
    /\ heap[id].kind \in {"Stub", "Mock", "Spy"}
    /\ heap' = [heap EXCEPT ![id].returns = SequenceOf(1)]
    /\ last' = [op |-> "Returning"]
    /\ UNCHANGED <<phase, options, calls, tick, ordered, concVars>>

\* mutant of multiValued: no source is drained, each is asked once
multiValuedNever(src) == FALSE

\* rv.(multiValues) && mv.multiValued(): a return channel or a Sequence
multiValued(src) == src.type \in {"Channel", "Sequence"}

\* mutant of firstDo: Do runs the function whenever it is called
firstDoAgain(s) == TRUE

\* sync.Once.Do runs the function on the first call only
firstDo(s) == s.once = "new"

\* sequentialReturnValues.run: make the relay channel, start the worker
run(s) ==
    [s EXCEPT !.rvChan = "open", !.made = @ + 1,
              !.worker = [pc |-> "ask", i |-> 1, out |-> <<>>]]

\* mutant of closeChan: the worker ends without closing the relay channel
closeChanSkipped(s) == [s EXCEPT !.worker = [NoWorker EXCEPT !.pc = "done"]]

\* close(rvChan) once the loop over s.values is over
closeChan(s) ==
    [s EXCEPT !.rvChan = "closed", !.worker = [NoWorker EXCEPT !.pc = "done"]]

\* the worker after rvChan <- result was received: a multi-valued source is
\* asked again, any other source is done with
sent(s) ==
    [s EXCEPT !.worker =
        [pc |-> "ask", out |-> <<>>,
         i |-> IF multiValued(s.values[s.worker.i]) THEN s.worker.i ELSE s.worker.i + 1]]

\* the worker after its source gave an error: on to the next source
exhausted(s) == [s EXCEPT !.worker = [pc |-> "ask", out |-> <<>>, i |-> s.worker.i + 1]]

\* the Sequence that is the source the worker of seqs[k] is at
inner(k) == seqs[k].values[seqs[k].worker.i].values[1]

\* a goroutine of the test calls Receive of the Sequence
SeqReceive(g) ==
    /\ procs[g].pc = "idle"
    /\ procs' = [procs EXCEPT ![g].pc = "once"]
    /\ UNCHANGED <<phase, options, calls, heap, tick, last, ordered,
                   mutex, rc, sender, got, seqs>>

\* s.once.Do(s.run): the first caller runs s.run, a caller that finds it
\* running waits until it is done
SeqOnce(g) ==
    /\ procs[g].pc = "once"
    /\ IF firstDo(seqs[1])
       THEN /\ seqs' = [seqs EXCEPT ![1].once = "running"]
            /\ procs' = [procs EXCEPT ![g].pc = "run"]
       ELSE /\ seqs[1].once = "done"
            /\ procs' = [procs EXCEPT ![g].pc = "recv"]
            /\ UNCHANGED seqs
    /\ UNCHANGED <<phase, options, calls, heap, tick, last, ordered,
                   mutex, rc, sender, got>>

SeqRun(g) ==
    /\ procs[g].pc = "run"
    /\ seqs' = [seqs EXCEPT ![1] = [run(@) EXCEPT !.once = "done"]]
    /\ procs' = [procs EXCEPT ![g].pc = "recv"]
    /\ UNCHANGED <<phase, options, calls, heap, tick, last, ordered,
                   mutex, rc, sender, got>>

\* generatedReturns, ok := <-s.rvChan meets rvChan <- result of the worker
SeqHandoff(g) ==
    /\ procs[g].pc = "recv"
    /\ seqs[1].rvChan = "open"
    /\ seqs[1].worker.pc = "send"
    /\ got' = Append(got, gotEntry(g, Returned(seqs[1].worker.out)))
    /\ procs' = [procs EXCEPT ![g] = received(g, Returned(seqs[1].worker.out))]
    /\ seqs' = [seqs EXCEPT ![1] = sent(@)]
    /\ UNCHANGED <<phase, options, calls, heap, tick, last, ordered,
                   mutex, rc, sender>>

\* <-s.rvChan on the closed relay channel: ok is false
SeqNoValues(g) ==
    /\ procs[g].pc = "recv"
    /\ seqs[1].rvChan = "closed"
    /\ got' = Append(got, gotEntry(g, Failed(ErrNoValues)))
    /\ procs' = [procs EXCEPT ![g] = received(g, Failed(ErrNoValues))]
    /\ UNCHANGED <<phase, options, calls, heap, tick, last, ordered,
                   mutex, rc, sender, seqs>>

\* the worker at the head of its loop: past the last source it closes the
\* relay channel; a fixed source returns its tuple; of a Sequence it calls
\* Receive, which starts that Sequence if need be and then waits on its
\* relay channel
WorkerAsk(k) ==
    LET s == seqs[k]
        i == s.worker.i
    IN  /\ s.worker.pc = "ask"
        /\ IF i > Len(s.values)
           THEN seqs' = [seqs EXCEPT ![k] = closeChan(s)]
           ELSE IF s.values[i].type = "Sequence"
           THEN seqs' = [seqs EXCEPT
                           ![k].worker.pc = "recv",
                           ![k].asked = @ + 1,
                           ![inner(k)] = IF firstDo(@) THEN [run(@) EXCEPT !.once = "done"]
                                         ELSE @]
           ELSE seqs' = [seqs EXCEPT
                           ![k].worker.pc = "send",
                           ![k].worker.out = Receive(s.values[i]),
                           ![k].asked = @ + 1]
        /\ UNCHANGED <<phase, options, calls, heap, tick, last, ordered,
                       mutex, rc, sender, got, procs>>

\* the worker receives the tuple the worker of the inner Sequence offers and
\* offers it on its own relay channel
WorkerHandoff(k) ==
    /\ seqs[k].worker.pc = "recv"
    /\ seqs[inner(k)].rvChan = "open"
    /\ seqs[inner(k)].worker.pc = "send"
    /\ seqs' = [seqs EXCEPT ![k].worker.pc = "send",
                            ![k].worker.out = seqs[inner(k)].worker.out,
                            ![inner(k)] = sent(@)]
    /\ UNCHANGED <<phase, options, calls, heap, tick, last, ordered,
                   mutex, rc, sender, got, procs>>

\* the inner Sequence has closed its relay channel: its Receive gives the
\* error and the worker breaks out of the loop over that source
WorkerDrained(k) ==
    /\ seqs[k].worker.pc = "recv"
    /\ seqs[inner(k)].rvChan = "closed"
    /\ seqs' = [seqs EXCEPT ![k] = exhausted(@)]
    /\ UNCHANGED <<phase, options, calls, heap, tick, last, ordered,
                   mutex, rc, sender, got, procs>>

(***************************************************************************)
(* delayedReturnValues.  Delayed(rv, by) and RandDelayed(rv, max) wrap the *)
(* source rv; durations are small integers.  Receive evaluates             *)
(* d.sleeper(d.delayer()), waits for the channel the sleeper gave, and     *)
(* then calls Receive of the wrapped source.  last records the call of the *)
(* sleeper.                                                                *)
(***************************************************************************)
Delayed(rv, by) == [type |-> "Delayed", values |-> <<>>, rv |-> rv, rand |-> FALSE, d |-> by]

RandDelayed(rv, max) == [type |-> "Delayed", values |-> <<>>, rv |-> rv, rand |-> TRUE, d |-> max]

\* mutant of delayer: the random duration may be max itself
delayerUpTo(src) == IF src.rand THEN 0..src.d ELSE {src.d}

\* d.delayer(): the fixed duration, or rand.Int63n(int64(max)), a number of
\* [0, max); Int63n panics when max <= 0, which is the empty set here
delayer(src) == IF src.rand THEN 0..(src.d - 1) ELSE {src.d}

\* Returning(Delayed(...)), Returning(RandDelayed(...))
ReturningDelayed(id, src) ==
    /\ phase = "Setup"
    /\ heap[id].kind \in {"Stub", "Mock", "Spy"}
    /\ heap' = [heap EXCEPT ![id].returns = src]
    /\ last' = [op |-> "Returning"]
    /\ UNCHANGED <<phase, options, calls, tick, ordered, concVars>>

\* the test calls Receive of the delayed source of the call id: the delayer
\* gives the duration and the sleeper is called with it, or Int63n panics
DelayedReceive(g, id) ==
    LET src == heap[id].returns
    IN  /\ procs[g].pc = "idle"
        /\ src.type = "Delayed"
        /\ phase' = "Exercise"
        /\ IF delayer(src) = {}
           THEN /\ procs' = [procs EXCEPT ![g].pc = "panicked"]
                /\ last' = [op |-> "Int63n", g |-> g, id |-> id, panic |-> TRUE]
           ELSE \E d \in delayer(src) :
                   /\ procs' = [procs EXCEPT ![g].pc = "sleeping", ![g].timer = "armed",
                                             ![g].matched = id]
                   /\ last' = [op |-> "sleeper", g |-> g, id |-> id, d |-> d]
        /\ UNCHANGED <<options, calls, heap, tick, ordered, mutex, rc, sender, got, seqs>>

\* mutant of DelayedWake: the wrapped source is asked without waiting for
\* the channel of the sleeper
DelayedWakeEarly(g) ==
    LET rv == heap[procs[g].matched].returns.rv
    IN  /\ procs[g].pc = "sleeping"
        /\ IF rv = ChannelReturns
           THEN /\ selectEnter(g)
                /\ UNCHANGED got
           ELSE /\ procs' = [procs EXCEPT ![g] = idle]
                /\ got' = Append(got, gotEntry(g, Returned(Receive(rv))))
        /\ UNCHANGED <<phase, options, calls, heap, tick, last, ordered,
                       mutex, rc, sender, seqs>>

\* <-d.sleeper(...) received, return d.ReturnValues.Receive(): a fixed
\* source returns at once, the return channel enters its select
DelayedWake(g) ==
    LET rv == heap[procs[g].matched].returns.rv
    IN  /\ procs[g].pc = "sleeping"
        /\ procs[g].timer = "fired"
        /\ IF rv = ChannelReturns
           THEN /\ selectEnter(g)
                /\ UNCHANGED got
           ELSE /\ procs' = [procs EXCEPT ![g] = idle]
                /\ got' = Append(got, gotEntry(g, Returned(Receive(rv))))
        /\ UNCHANGED <<phase, options, calls, heap, tick, last, ordered,
                       mutex, rc, sender, seqs>>

(***************************************************************************)
(* The worker of a Sequence at a return channel or at a Delayed source.    *)
(* The return channel is not sent on while the worker drains it: its       *)
(* Receive takes the next buffered tuple, or gives the error of the closed *)
(* channel, or that of the timeout when the channel is open and empty.     *)
(***************************************************************************)
\* the worker of s after Receive of the return channel returned
fromChannel(s) ==
    IF rc.buf # <<>>
    THEN [s EXCEPT !.worker.pc = "send", !.worker.out = Head(rc.buf)]
    ELSE exhausted(s)

\* the return channel after that Receive
taken == IF rc.buf # <<>> THEN [rc EXCEPT !.buf = Tail(@)] ELSE rc

\* the head of the loop of the worker: mv.Receive() or rv.Receive() of the
\* return channel, and of a Delayed source as far as <-d.sleeper(...)
DrainAsk(k) ==
    LET s == seqs[k]
        i == s.worker.i
    IN  /\ s.worker.pc = "ask"
        /\ IF i > Len(s.values) \/ s.values[i].type \notin {"Channel", "Delayed"}
           THEN WorkerAsk(k)
           ELSE /\ IF s.values[i].type = "Delayed"
                   THEN /\ seqs' = [seqs EXCEPT ![k].worker.pc = "sleep", ![k].asked = @ + 1]
                        /\ UNCHANGED rc
                   ELSE /\ seqs' = [seqs EXCEPT ![k] = [fromChannel(s) EXCEPT !.asked = @ + 1]]
                        /\ rc' = taken
                /\ UNCHANGED <<phase, options, calls, heap, tick, last, ordered,
                               mutex, sender, got, procs>>

\* the channel of the sleeper fired: return d.ReturnValues.Receive()
DrainWake(k) ==
    LET s  == seqs[k]
        rv == s.values[s.worker.i].rv
    IN  /\ s.worker.pc = "sleep"
        /\ IF rv.type = "Channel"
           THEN /\ seqs' = [seqs EXCEPT ![k] = fromChannel(s)]
                /\ rc' = taken
           ELSE /\ seqs' = [seqs EXCEPT ![k].worker.pc = "send",
                                        ![k].worker.out = Receive(rv)]
                /\ UNCHANGED rc
        /\ UNCHANGED <<phase, options, calls, heap, tick, last, ordered,
                       mutex, sender, got, procs>>

(***************************************************************************)
(* The specifications bound the number of calls on the heap: an operation  *)
(* that would register one more call is not taken.                         *)
(***************************************************************************)
Room(n) == Len(heap) < n

Vivifies(m, args) == matchIndex(heap, calls[m], args) = 0

NoSpy(m) == spiesOf(heap, calls[m]) = <<>>

\* new doubles: no call is registered yet
InitMethods ==
    /\ phase = "Setup"
    /\ calls = [m \in Methods |-> <<>>]
    /\ heap = <<>>
    /\ tick = 0
    /\ last = [op |-> "NewDouble"]
    /\ ordered = <<>>

\* new doubles made without EnableTrace
InitDoubles ==
    /\ InitMethods
    /\ trace = [d \in Doubles |-> FALSE]

\* no goroutine is inside Invoke or Receive and no method is locked
InitGoroutines ==
    /\ procs = [g \in Goroutines |-> idle]
    /\ mutex = [m \in Methods |-> "free"]
    /\ got = <<>>

\* a new return channel with a buffer of bufSize tuples
InitReturnChannel(bufSize) ==
    /\ rc = NewReturnChannel(bufSize)
    /\ sender = [pc |-> "ready", n |-> 0, closedAt |-> 0]

InitCommon ==
    /\ InitDoubles
    /\ InitGoroutines
    /\ InitReturnChannel(0)
    /\ seqs = <<>>

(***************************************************************************)
(* Spec: one method, call(string) int of d1, with every kind of call,      *)
(* argument matchers, return values and expectations, and the shipped      *)
(* default call.                                                           *)
(***************************************************************************)
Init ==
    /\ InitCommon
    /\ defaultCall = [d \in Doubles |-> ShippedDefault]

DispatchMethods == {<<"d1", "call">>}

DispatchExpects == {Once, Twice}

MatchValues == {"second"}

Next ==
    \/ \E m \in DispatchMethods : Room(MaxCalls) /\ Stub(m)
    \/ \E m \in DispatchMethods : Room(MaxCalls) /\ Mock(m)
    \/ \E m \in DispatchMethods : (NoSpy(m) => Room(MaxCalls)) /\ Spy(m)
    \/ \E m \in DispatchMethods : Room(MaxCalls) /\ Fake(m, LenImpl)
    \/ \E id \in Ids, v \in MatchValues : Matching(id, v)
    \/ \E id \in Ids, v \in ReturnValueSet : Returning(id, v)
    \/ \E id \in Ids, e \in DispatchExpects : Expect(id, e)
    \/ \E m \in DispatchMethods : \E args \in ArgsOf(m) :
          (Vivifies(m, args) => Room(MaxCalls)) /\ Invoke(m, args)
    \/ Verify("d1")

Spec == Init /\ [][Next]_vars

(***************************************************************************)
(* SpecDefault: the same method under every default-call factory, with     *)
(* stubs, matchers and spies registered explicitly.                        *)
(***************************************************************************)
InitDefault ==
    /\ InitCommon
    /\ defaultCall \in {f \in [Doubles -> Factories] : f["d2"] = ShippedDefault}

NextDefault ==
    \/ \E m \in DispatchMethods : Room(MaxCalls) /\ Stub(m)
    \/ \E m \in DispatchMethods : Room(MaxCalls) /\ Mock(m)
    \/ \E m \in DispatchMethods : (NoSpy(m) => Room(MaxCalls)) /\ Spy(m)
    \/ \E m \in DispatchMethods : Room(MaxCalls) /\ Fake(m, LenImpl)
    \/ \E id \in Ids, v \in MatchValues : Matching(id, v)
    \/ \E id \in Ids : Expect(id, Once)
    \/ \E m \in DispatchMethods : \E args \in ArgsOf(m) :
          (Vivifies(m, args) => Room(MaxCalls)) /\ Invoke(m, args)

SpecDefault == InitDefault /\ [][NextDefault]_vars

(***************************************************************************)
(* SpecMocks: mocks on a method of each double, with expectations and      *)
(* sequenced with After.                                                   *)
(***************************************************************************)
MockMethods == {<<"d1", "call">>, <<"d2", "call">>}

MockExpects == {Exactly(0), Between(1, 2)}

MockArgs(m) == IF NumIn(m) = 0 THEN {<<>>} ELSE {<<"first">>}

NextMocks ==
    \/ \E m \in MockMethods : Room(MaxMocks) /\ Mock(m)
    \/ \E id \in Ids, e \in MockExpects : Expect(id, e)
    \/ \E id \in Ids, a \in Ids : a < id /\ After(id, a)
    \/ \E m \in MockMethods : \E args \in MockArgs(m) :
          (Vivifies(m, args) => Room(MaxMocks)) /\ Invoke(m, args)

SpecMocks == Init /\ [][NextMocks]_vars

(***************************************************************************)
(* SpecInOrder: the same mocks, sequenced by one call of ExpectInOrder.    *)
(***************************************************************************)
RECURSIVE Ascending(_)
Ascending(S) ==
    IF S = {} THEN <<>>
    ELSE LET x == CHOOSE y \in S : \A z \in S : y <= z
         IN  <<x>> \o Ascending(S \ {x})

\* the lists of two or more calls in registration order
OrderedLists == {Ascending(S) : S \in {T \in SUBSET Ids : Cardinality(T) >= 2}}

NextInOrder ==
    \/ \E m \in MockMethods : Room(MaxMocks) /\ Mock(m)
    \/ \E id \in Ids, e \in MockExpects : Expect(id, e)
    \/ \E l \in OrderedLists : ordered = <<>> /\ ExpectInOrder(l)
    \/ \E m \in MockMethods : \E args \in MockArgs(m) :
          (Vivifies(m, args) => Room(MaxMocks)) /\ Invoke(m, args)

SpecInOrder == Init /\ [][NextInOrder]_vars

(***************************************************************************)
(* SpecVerify: mocks on the two methods of d1 with their expectations,     *)
(* exercised and verified.                                                 *)
(***************************************************************************)
VerifyMethods == MethodsOf("d1")

VerifyExpects == {Once, Never, AtLeast(1), AtMost(1)}

NextVerify ==
    \/ \E m \in VerifyMethods : Room(MaxMocks) /\ Mock(m)
    \/ \E m \in VerifyMethods : Room(MaxMocks) /\ Stub(m)
    \/ \E id \in Ids, e \in VerifyExpects : Expect(id, e)
    \/ \E m \in VerifyMethods : \E args \in MockArgs(m) :
          (Vivifies(m, args) => Room(MaxMocks)) /\ Invoke(m, args)
    \/ Verify("d1")

SpecVerify == Init /\ [][NextVerify]_vars

(***************************************************************************)
(* SpecViews: spied methods of two doubles (the default call is a Spy),    *)
(* exercised, and their recorded calls queried with After.  A query reads  *)
(* the logs only, so a query that follows a query reaches nothing new.     *)
(***************************************************************************)
InitViews ==
    /\ InitCommon
    /\ defaultCall = [d \in Doubles |-> "Spy"]

ViewMethods == {<<"d1", "call">>, <<"d2", "call">>}

Queries == {"CallsAfter", "Slice"}

NextViews ==
    \/ \E m \in ViewMethods : Spy(m)
    \/ \E m \in ViewMethods : \E args \in ArgsOf(m) : Invoke(m, args)
    \/ \E id \in Ids, other \in Ids : last.op \notin Queries /\ QueryAfter(id, other)
    \/ \E id \in Ids : last.op \notin Queries /\ QuerySlice(id)

SpecViews == InitViews /\ [][NextViews]_vars

(***************************************************************************)
(* SpecChannel: a return channel, buffered or not, with a goroutine that   *)
(* sends and closes and goroutines that receive.                           *)
(***************************************************************************)
BufferSizes == {0, 1, 2}

InitChannel ==
    /\ InitDoubles
    /\ defaultCall = [d \in Doubles |-> ShippedDefault]
    /\ InitGoroutines
    /\ \E bufSize \in BufferSizes : InitReturnChannel(bufSize)
    /\ seqs = <<>>

\* the calls of Receive made so far
receives == Len(got) + Cardinality({g \in Goroutines : procs[g].pc \notin {"idle", "exited"}})

NextChannel ==
    \/ sender.n < MaxSend /\ Send
    \/ Close
    \/ \E g \in Goroutines : receives < MaxReceive /\ ChannelReceive(g)
    \/ \E g \in Goroutines : TimerFire(g)
    \/ \E g \in Goroutines : Select(g)

SpecChannel == InitChannel /\ [][NextChannel]_vars

(***************************************************************************)
(* SpecTicks: two goroutines invoke spied and faked methods of two doubles *)
(* concurrently (the default call is a Spy).                               *)
(***************************************************************************)
\* the invocations that have not drawn their tick yet
undrawn == Cardinality({g \in Goroutines : procs[g].pc \in {"lock", "match"}})

NextTicks ==
    \/ \E m \in ViewMethods : Room(MaxCalls) /\ Fake(m, LenImpl)
    \/ \E g \in Goroutines, m \in ViewMethods : \E args \in MockArgs(m) :
          tick + undrawn < MaxTick /\ InvokeCall(g, m, args)
    \/ \E g \in Goroutines : InvokeLock(g)
    \/ \E g \in Goroutines : InvokeMatch(g)
    \/ \E g \in Goroutines : InvokeRecord(g)
    \/ \E g \in Goroutines : InvokeReceive(g)
    \/ \E g \in Goroutines : InvokeReturn(g)

SpecTicks == InitViews /\ [][NextTicks]_vars

(***************************************************************************)
(* SpecLock: two goroutines invoke the two methods of d1 concurrently.     *)
(* The calls of call(string) may return from an unbuffered return channel, *)
(* on which a third goroutine sends; other() never blocks.  Each method    *)
(* has at most one mock, and the mock of other() may be sequenced After    *)
(* the mock of call(string).                                               *)
(***************************************************************************)
LockMethods == MethodsOf("d1")

ChannelMethod == <<"d1", "call">>

\* g1 invokes call(string) only, g2 either method
InvokedBy(g) == IF g = "g1" THEN {ChannelMethod} ELSE LockMethods

\* no call was invoked MaxCount times yet
Countable == \A id \in Ids : heap[id].count < MaxCount

NextLock ==
    \/ \E m \in LockMethods : calls[m] = <<>> /\ Mock(m)
    \/ \E id \in Ids : heap[id].method = ChannelMethod /\ ReturningChannel(id)
    \/ \E id \in Ids, a \in Ids :
          heap[id].method # ChannelMethod /\ heap[a].method = ChannelMethod /\ After(id, a)
    \/ \E id \in Ids : heap[id].method = ChannelMethod /\ Expect(id, Once)
    \/ \E g \in Goroutines : \E m \in InvokedBy(g) : \E args \in MockArgs(m) :
          Countable /\ receives < MaxReceive /\ InvokeCall(g, m, args)
    \/ \E g \in Goroutines : InvokeLock(g)
    \/ \E g \in Goroutines : InvokeMatch(g)
    \/ \E g \in Goroutines : InvokeReceive(g)
    \/ \E g \in Goroutines : InvokeReturn(g)
    \/ \E g \in Goroutines : Select(g)
    \/ \E g \in Goroutines : TimerFire(g)
    \/ sender.n < MaxSend /\ Send

SpecLock == Init /\ [][NextLock]_vars

\* a step of method.invoke of g, outside the return channel
InvokeStep(g) == InvokeLock(g) \/ InvokeMatch(g) \/ InvokeReceive(g) \/ InvokeReturn(g)

\* the scheduler runs a goroutine that is inside other() and can take a
\* step; nothing makes the test send on the channel, no timer is relied on,
\* and an invocation of call(string) may stay where it is
FairLock ==
    /\ SpecLock
    /\ WF_vars(\E g \in Goroutines : procs[g].m # ChannelMethod /\ InvokeStep(g))

(***************************************************************************)
(* SpecSequence: two goroutines receive concurrently from a Sequence of    *)
(* fixed values and of Sequences, the shapes of TestSequence and the empty *)
(* Sequence.                                                               *)
(***************************************************************************)
Shapes ==
    { <<Sequence(<<>>)>>,
      <<Sequence(<<Values(33), Values(44)>>)>>,
      <<Sequence(<<SequenceOf(2), Values(44)>>),
        Sequence(<<Values(33), Values(55)>>)>>,
      <<Sequence(<<SequenceOf(2), SequenceOf(3)>>),
        Sequence(<<Values(33), Values(55)>>),
        Sequence(<<Values(44), Values(66)>>)>> }

InitSequence ==
    /\ InitDoubles
    /\ defaultCall = [d \in Doubles |-> ShippedDefault]
    /\ InitGoroutines
    /\ InitReturnChannel(0)
    /\ seqs \in Shapes

\* the tuples of the sources i, i + 1, ... of the Sequence S[k], in order
RECURSIVE tuplesFrom(_, _, _)
tuplesFrom(S, k, i) ==
    IF i > Len(S[k].values) THEN <<>>
    ELSE LET src == S[k].values[i]
         IN  (IF src.type = "Sequence" THEN tuplesFrom(S, src.values[1], 1)
              ELSE <<Receive(src)>>) \o tuplesFrom(S, k, i + 1)

\* the tuples of the Sequence the test receives from
tuplesOfSequence == tuplesFrom(seqs, 1, 1)

SeqIds == DOMAIN seqs

NextSequence ==
    \/ \E g \in Goroutines :
          receives < Len(tuplesOfSequence) + MaxExtra /\ SeqReceive(g)
    \/ \E g \in Goroutines : SeqOnce(g)
    \/ \E g \in Goroutines : SeqRun(g)
    \/ \E g \in Goroutines : SeqHandoff(g)
    \/ \E g \in Goroutines : SeqNoValues(g)
    \/ \E k \in SeqIds : WorkerAsk(k)
    \/ \E k \in SeqIds : WorkerHandoff(k)
    \/ \E k \in SeqIds : WorkerDrained(k)

SpecSequence == InitSequence /\ [][NextSequence]_vars

\* the scheduler runs every worker that can take a step and every goroutine
\* that is inside Receive and can take one; nothing makes the test call
\* Receive
FairSequence ==
    /\ SpecSequence
    /\ \A k \in 1..3 :
          WF_vars(k \in SeqIds /\ (WorkerAsk(k) \/ WorkerHandoff(k) \/ WorkerDrained(k)))
    /\ \A g \in Goroutines : WF_vars(SeqOnce(g) \/ SeqRun(g) \/ SeqNoValues(g))

(***************************************************************************)
(* SpecFake: call(string) int of d1 with stubs, mocks, a spy and fakes     *)
(* whose implementation may panic, on doubles made with or without         *)
(* EnableTrace.                                                            *)
(***************************************************************************)
InitFake ==
    /\ InitMethods
    /\ trace \in {f \in [Doubles -> BOOLEAN] : ~f["d2"]}
    /\ defaultCall = [d \in Doubles |-> ShippedDefault]
    /\ InitGoroutines
    /\ InitReturnChannel(0)
    /\ seqs = <<>>

NextFake ==
    \/ \E m \in DispatchMethods : Room(MaxCalls) /\ Stub(m)
    \/ \E m \in DispatchMethods : Room(MaxCalls) /\ Mock(m)
    \/ \E m \in DispatchMethods : (NoSpy(m) => Room(MaxCalls)) /\ Spy(m)
    \/ \E m \in DispatchMethods, impl \in Impls :
          (NoSpy(m) => Room(MaxCalls)) /\ Fake(m, impl)
    \/ \E id \in Ids, v \in MatchValues : Matching(id, v)
    \/ \E m \in DispatchMethods : \E args \in ArgsOf(m) :
          (Vivifies(m, args) => Room(MaxCalls)) /\ Invoke(m, args)

SpecFake == InitFake /\ [][NextFake]_vars

(***************************************************************************)
(* SpecExpect: every expectation, asked Met and Complete for a count.      *)
(***************************************************************************)
Constructors == {"Exactly", "Once", "Twice", "Never", "AtLeast", "AtMost", "Between"}

\* the expectation a constructor returns for the arguments n and max
construct(ctor, n, max) ==
    CASE ctor = "Exactly" -> Exactly(n)
      [] ctor = "Once"    -> Once
      [] ctor = "Twice"   -> Twice
      [] ctor = "Never"   -> Never
      [] ctor = "AtLeast" -> AtLeast(n)
      [] ctor = "AtMost"  -> AtMost(n)
      [] ctor = "Between" -> Between(n, max)

\* a Mock with the expectation e is asked met() and complete() at count
Expectation(ctor, n, max, count) ==
    LET c == [newMockedMethodCall(<<"d1", "call">>) EXCEPT
                 !.expect = construct(ctor, n, max), !.count = count]
    IN  /\ last' = [op |-> "Expectation", ctor |-> ctor, n |-> n, max |-> max,
                    count |-> count, expect |-> c.expect,
                    met |-> met(c), complete |-> complete(c)]
        /\ UNCHANGED <<phase, options, calls, heap, tick, ordered, concVars>>

Counts == (0 - 1)..(MaxExpected + 1)

NextExpect ==
    \E ctor \in Constructors, n \in 0..MaxExpected, max \in 0..MaxExpected, count \in Counts :
       /\ ctor # "Between" => max = 0
       /\ ctor \in {"Once", "Twice", "Never"} => n = 0
       /\ Expectation(ctor, n, max, count)

SpecExpect == Init /\ [][NextExpect]_vars

(***************************************************************************)
(* SpecMatcher: stubs of call(string) and other() of d1 given matchers     *)
(* built from lists of raw inputs, NewMatcherForMethod applied to the      *)
(* methods of the interface before any call is registered, and             *)
(* invocations of call(string).                                            *)
(***************************************************************************)
InterfaceMethods == {"call", "other", "test", "variadic", "pointers"}

\* the single inputs: raw values, raw functions and matchers
MatcherInputs ==
    {Raw("first"), Raw("second"), regexF, intF, noReturnF, errorF,
     Nil, LenMatcher(5), SliceMatcher(<<Eql(Raw("first"))>>), Func(intF), All(<<>>),
     Args(<<Eql(Raw("first"))>>), Args(<<Eql(Raw("first")), Eql(Raw("second"))>>),
     Args(<<Nil>>), Args(<<Args(<<Eql(Raw("first"))>>)>>)}

\* the inputs given by position
PositionalInputs ==
    {Raw("first"), Raw("second"), Nil, LenMatcher(5), Args(<<Eql(Raw("first"))>>)}

MatcherLists ==
    {<<>>} \cup {<<x>> : x \in MatcherInputs}
           \cup {<<x, y>> : x \in PositionalInputs, y \in PositionalInputs}
           \cup {<<regexF, Raw("second")>>, <<intF, Raw("second")>>}
           \cup {<<Raw("first"), Raw("second"), Raw("first")>>}

\* the lists given to the stubs
StubLists ==
    {<<>>, <<Raw("first")>>, <<regexF>>, <<Nil>>, <<LenMatcher(5)>>,
     <<Args(<<Eql(Raw("first")), Eql(Raw("second"))>>)>>,
     <<Raw("first"), Raw("second")>>, <<Nil, Raw("first")>>}

NextMatcher ==
    \/ \E m \in MethodsOf("d1") : Room(MaxCalls) /\ Stub(m)
    \/ \E id \in Ids, l \in StubLists : MatchingList(id, l)
    \/ \E name \in InterfaceMethods, l \in MatcherLists : heap = <<>> /\ MatcherFor(name, l)
    \/ \E m \in DispatchMethods : \E args \in ArgsOf(m) :
          (Vivifies(m, args) => Room(MaxCalls)) /\ Invoke(m, args)

SpecMatcher == Init /\ [][NextMatcher]_vars

(***************************************************************************)
(* SpecReturn: goroutines invoke call(string) of d1 and of d2, stubbed     *)
(* with the return channel, which the test sends on and closes, with a     *)
(* Sequence of one fixed source, or with the default return values.        *)
(***************************************************************************)
ReturnMethods == {<<"d1", "call">>, <<"d2", "call">>}

InitReturn ==
    /\ InitDoubles
    /\ defaultCall = [d \in Doubles |-> ShippedDefault]
    /\ InitGoroutines
    /\ InitReturnChannel(0)
    /\ seqs = <<Sequence(<<Values(33)>>)>>

NextReturn ==
    \/ \E m \in ReturnMethods : calls[m] = <<>> /\ Stub(m)
    \/ \E id \in Ids : ReturningChannel(id)
    \/ \E id \in Ids : ReturningSequence(id)
    \/ \E g \in Goroutines : \E m \in ReturnMethods :
          calls[m] # <<>> /\ receives < MaxReceive /\ InvokeCall(g, m, <<"first">>)
    \/ \E g \in Goroutines : InvokeLock(g)
    \/ \E g \in Goroutines : InvokeMatch(g)
    \/ \E g \in Goroutines : InvokeReceive(g)
    \/ \E g \in Goroutines : InvokeReturn(g)
    \/ \E g \in Goroutines : Select(g)
    \/ \E g \in Goroutines : TimerFire(g)
    \/ sender.n < MaxSend /\ Send
    \/ Close
    \/ \E g \in Goroutines : SeqOnce(g)
    \/ \E g \in Goroutines : SeqRun(g)
    \/ \E g \in Goroutines : SeqHandoff(g)
    \/ \E g \in Goroutines : SeqNoValues(g)
    \/ \E k \in SeqIds : WorkerAsk(k)

SpecReturn == InitReturn /\ [][NextReturn]_vars

(***************************************************************************)
(* SpecDelayed: a stub of call(string) whose return values are a Delayed   *)
(* or RandDelayed source around a fixed value or the return channel; the   *)
(* goroutines of the test call Receive of it, as TestDelayed and           *)
(* TestRandDelayed do.                                                     *)
(***************************************************************************)
Durations == 0..MaxDelay

Wrapped == {Values(33), ChannelReturns}

DelayedSources ==
    {Delayed(rv, by) : rv \in Wrapped, by \in Durations}
       \cup {RandDelayed(rv, max) : rv \in Wrapped, max \in Durations}

NextDelayed ==
    \/ \E m \in DispatchMethods : heap = <<>> /\ Stub(m)
    \/ \E id \in Ids, src \in DelayedSources :
          heap[id].returns = NilReturns /\ ReturningDelayed(id, src)
    \/ \E g \in Goroutines, id \in Ids : receives < MaxReceive /\ DelayedReceive(g, id)
    \/ \E g \in Goroutines : DelayedWake(g)
    \/ \E g \in Goroutines : TimerFire(g)
    \/ \E g \in Goroutines : Select(g)
    \/ sender.n < MaxSend /\ Send
    \/ Close

SpecDelayed == Init /\ [][NextDelayed]_vars

(***************************************************************************)
(* SpecBound: two goroutines invoke call(string) of d1 concurrently; the   *)
(* method has mocks whose expectations have an upper bound, Between(2, 1)  *)
(* among them, and the shipped default call.                               *)
(***************************************************************************)
BoundExpects == {Exactly(0), Once, AtMost(1), Between(1, 2), Between(2, 1)}

\* the invocations that were counted by a call
RECURSIVE totalCount(_)
totalCount(h) == IF h = <<>> THEN 0 ELSE Head(h).count + totalCount(Tail(h))

\* the invocations made so far
invocations ==
    totalCount(heap)
    + Cardinality({g \in Goroutines : procs[g].pc \in {"lock", "match", "spy"}})

NextBound ==
    \/ \E m \in DispatchMethods : Room(MaxCalls) /\ Mock(m)
    \/ \E id \in Ids, e \in BoundExpects : heap[id].expect = NoExpect /\ Expect(id, e)
    \/ \E g \in Goroutines, m \in DispatchMethods :
          /\ invocations < MaxInvoke
          /\ (Vivifies(m, <<"first">>) => Len(heap) <= MaxCalls)
          /\ InvokeCall(g, m, <<"first">>)
    \/ \E g \in Goroutines : InvokeLock(g)
    \/ \E g \in Goroutines : InvokeMatched(g)
    \/ \E g \in Goroutines : InvokeSpy(g)
    \/ \E g \in Goroutines : InvokeReceive(g)
    \/ \E g \in Goroutines : InvokeReturn(g)

SpecBound == Init /\ [][NextBound]_vars

(***************************************************************************)
(* SpecUnbounded: mocks of call(string) on d1 and d2 whose expectations    *)
(* are AtLeast(1), Never, Once or none, sequenced by After and by          *)
(* ExpectInOrder.                                                          *)
(***************************************************************************)
UnboundedExpects == {AtLeast(1), Never, Once}

NextUnbounded ==
    \/ \E m \in MockMethods : Room(MaxCalls) /\ Mock(m)
    \/ \E id \in Ids, e \in UnboundedExpects : heap[id].expect = NoExpect /\ Expect(id, e)
    \/ \E id \in Ids, a \in Ids :
          a < id /\ a \notin heap[id].after /\ ordered = <<>> /\ After(id, a)
    \/ \E l \in OrderedLists :
          ordered = <<>> /\ (\A id \in Ids : heap[id].after = {}) /\ ExpectInOrder(l)
    \/ \E m \in MockMethods : \E args \in MockArgs(m) :
          (Vivifies(m, args) => Len(heap) <= MaxCalls) /\ Invoke(m, args)

SpecUnbounded == Init /\ [][NextUnbounded]_vars

(***************************************************************************)
(* SpecShadow: stubs, mocks expecting Once, the Spy and a Fake of          *)
(* call(string) registered in any order, exercised and verified.           *)
(***************************************************************************)
NextShadow ==
    \/ \E m \in DispatchMethods : Room(MaxCalls) /\ Stub(m)
    \/ \E m \in DispatchMethods : Room(MaxCalls) /\ Mock(m)
    \/ \E m \in DispatchMethods : (NoSpy(m) => Room(MaxCalls)) /\ Spy(m)
    \/ \E m \in DispatchMethods : Room(MaxCalls) /\ Fake(m, LenImpl)
    \/ \E id \in Ids : heap[id].expect = NoExpect /\ Expect(id, Once)
    \/ \E m \in DispatchMethods : \E args \in ArgsOf(m) :
          (Vivifies(m, args) => Room(MaxCalls)) /\ Invoke(m, args)
    \/ Verify("d1")

SpecShadow == InitDefault /\ [][NextShadow]_vars

(***************************************************************************)
(* SpecUnlock: two goroutines invoke call(string) of d1, whose calls are a *)
(* stub that returns from the return channel, on which nothing is sent, a  *)
(* Fake whose implementation panics on "second", and a default call that   *)
(* may be nil; stubs are also registered while the double is exercised.    *)
(***************************************************************************)
InitUnlock ==
    /\ InitCommon
    /\ defaultCall \in {f \in [Doubles -> {"Nil", ShippedDefault}] : f["d2"] = ShippedDefault}

NextUnlock ==
    \/ \E m \in DispatchMethods : calls[m] = <<>> /\ Stub(m)
    \/ \E m \in DispatchMethods : Room(MaxCalls) /\ Fake(m, PanicImpl)
    \/ \E id \in Ids : heap[id].matcher = NilMatcher /\ Matching(id, "first")
    \/ \E id \in Ids : heap[id].kind = "Stub" /\ ReturningChannel(id)
    \/ \E m \in DispatchMethods : phase = "Exercise" /\ Len(heap) <= MaxCalls /\ StubLocked(m)
    \/ \E g \in Goroutines, m \in DispatchMethods : \E args \in ArgsOf(m) :
          /\ tick < MaxTick /\ receives < MaxReceive
          /\ \A id \in Ids : heap[id].count < MaxCount
          /\ (Vivifies(m, args) => Len(heap) <= MaxCalls)
          /\ InvokeCall(g, m, args)
    \/ \E g \in Goroutines : InvokeLock(g)
    \/ \E g \in Goroutines : InvokeMatched(g)
    \/ \E g \in Goroutines : InvokeSpy(g)
    \/ \E g \in Goroutines : ~panics(g) /\ InvokeReceive(g)
    \/ \E g \in Goroutines : InvokeFakePanics(g)
    \/ \E g \in Goroutines : InvokeUnwind(g)
    \/ \E g \in Goroutines : InvokeReturn(g)
    \/ \E g \in Goroutines : Select(g)
    \/ \E g \in Goroutines : TimerFire(g)

SpecUnlock == InitUnlock /\ [][NextUnlock]_vars

\* the scheduler runs every goroutine that is inside invoke, the timer of a
\* Receive fires, and a goroutine waiting in Lock gets the mutex when it is
\* released again and again
FairUnlock ==
    /\ SpecUnlock
    /\ \A g \in Goroutines :
          /\ WF_vars(InvokeMatched(g)) /\ WF_vars(InvokeSpy(g))
          /\ WF_vars(~panics(g) /\ InvokeReceive(g))
          /\ WF_vars(InvokeFakePanics(g)) /\ WF_vars(InvokeUnwind(g))
          /\ WF_vars(InvokeReturn(g))
          /\ WF_vars(Select(g)) /\ WF_vars(TimerFire(g))
          /\ SF_vars(InvokeLock(g))

(***************************************************************************)
(* SpecLog: the Spy of call(string) of d1 records invocations, made with   *)
(* "first" and "second" in turn, while views of its log, and views of the  *)
(* views, are built with Slice, Matching and After.                        *)
(***************************************************************************)
\* the test invokes with "first" and "second" in turn
turn(recorded) == IF Len(recorded) % 2 = 0 THEN <<"first">> ELSE <<"second">>

NextLog ==
    \/ \E m \in DispatchMethods : SpySliced(m)
    \/ \E m \in DispatchMethods :
          /\ calls[m] # <<>> /\ Len(heap[calls[m][1]].recorded) < MaxLog
          /\ InvokeSpied(m, turn(heap[calls[m][1]].recorded))
    \/ \E id \in Ids : \E from \in 0..(Len(heap[id].recorded) + 1) :
          \E to \in from..(Len(heap[id].recorded) + 1) :
             Len(heap) <= MaxExtra /\ ViewSlice(id, from, to)
    \/ \E id \in Ids, v \in ArgValues : Len(heap) <= MaxExtra /\ ViewMatching(id, v)
    \/ \E id \in Ids, other \in Ids : Len(heap) <= MaxExtra /\ ViewAfter(id, other)

SpecLog == Init /\ [][NextLog]_vars

(***************************************************************************)
(* SpecArgs: Args matchers of one to three Eql and Slice matchers are      *)
(* validated for call(string), test(int, string) and variadic(int,         *)
(* ...string), once and again.                                             *)
(***************************************************************************)
ArgsMethods == {"call", "test", "variadic"}

ArgsElems ==
    {Eql(Raw(IntArg(10))), Eql(Raw(Str("first"))), Eql(Raw(Str("second"))),
     SliceMatcher(<<Eql(Raw(Str("first")))>>)}

ArgsLists ==
    {<<x>> : x \in ArgsElems}
       \cup {<<x, y>> : x \in ArgsElems, y \in ArgsElems}
       \cup {<<x, y, z>> : x \in {Eql(Raw(IntArg(10)))}, y \in ArgsElems, z \in ArgsElems}

NextArgs ==
    \/ \E name \in ArgsMethods, l \in ArgsLists : ArgsForMethod(name, l)
    \/ last.op = "ForMethod" /\ last.times <= MaxCalls /\ ForMethodAgain

SpecArgs == Init /\ [][NextArgs]_vars

(***************************************************************************)
(* SpecCounted: call(string) of d1 holds Mocks, sequenced with After, or   *)
(* a Spy; the return values of the first call are the return channel,      *)
(* which is never sent on and may be closed, or a Sequence of one fixed    *)
(* source; goroutines invoke the method and the test calls Verify.         *)
(***************************************************************************)
NextCounted ==
    \/ \E m \in DispatchMethods : Room(MaxCalls) /\ NoSpy(m) /\ Mock(m)
    \/ \E m \in DispatchMethods : calls[m] = <<>> /\ Spy(m)
    \/ \E id \in Ids : id = 1 /\ last.op \in {"Mock", "Spy"} /\ ReturningChannel(id)
    \/ \E id \in Ids : id = 1 /\ last.op \in {"Mock", "Spy"} /\ ReturningSequence(id)
    \/ \E id \in Ids, e \in {Once, Twice} :
          heap[id].expect = NoExpect /\ (e = Twice => id = 1) /\ Expect(id, e)
    \/ \E id, a \in Ids : a + 1 = id /\ a \notin heap[id].after /\ After(id, a)
    \/ \E g \in Goroutines, m \in DispatchMethods :
          /\ calls[m] # <<>> /\ tick < MaxTick /\ receives < MaxReceive
          /\ \A id \in Ids : heap[id].count < MaxCount
          /\ (Vivifies(m, <<"first">>) => Len(heap) <= MaxCalls)
          /\ InvokeCall(g, m, <<"first">>)
    \/ \E g \in Goroutines : InvokeLock(g)
    \/ \E g \in Goroutines : InvokeMatched(g)
    \/ \E g \in Goroutines : InvokeSpy(g)
    \/ \E g \in Goroutines : InvokeReceive(g)
    \/ \E g \in Goroutines : InvokeReturn(g)
    \/ \E g \in Goroutines : Select(g)
    \/ \E g \in Goroutines : TimerFire(g)
    \/ Close
    \/ \E g \in Goroutines : SeqOnce(g)
    \/ \E g \in Goroutines : SeqRun(g)
    \/ \E g \in Goroutines : SeqHandoff(g)
    \/ \E g \in Goroutines : SeqNoValues(g)
    \/ \E k \in SeqIds : WorkerAsk(k)
    \/ phase = "Exercise" /\ last.op # "Verify" /\ Verify("d1")

SpecCounted == InitReturn /\ [][NextCounted]_vars

(***************************************************************************)
(* SpecDrain: the goroutines of the test call Receive of a Sequence that   *)
(* holds the return channel, bare or wrapped in Delayed or RandDelayed,    *)
(* beside fixed sources and a nested Sequence; the test has sent up to     *)
(* MaxSend tuples on the buffered channel and may have closed it.          *)
(***************************************************************************)
DrainShapes ==
    { <<Sequence(<<ChannelReturns, Values(44)>>)>>,
      <<Sequence(<<Delayed(ChannelReturns, 1), Values(44)>>)>>,
      <<Sequence(<<RandDelayed(ChannelReturns, 2), Values(44)>>)>>,
      <<Sequence(<<Delayed(Values(33), 1), ZeroValues>>)>>,
      <<Sequence(<<SequenceOf(2), Values(44)>>),
        Sequence(<<ChannelReturns, RandDelayed(Values(55), 1)>>)>> }

\* the tuples the test has sent
sentTuples == [i \in 1..sender.n |-> toSend(i)]

\* the tuples of the sources i, i + 1, ... of the Sequence S[k] when each
\* multi-valued source is drained; wrapped says whether a return channel
\* inside Delayed is drained as well or asked once
RECURSIVE drainedFrom(_, _, _, _)
drainedFrom(S, k, i, wrapped) ==
    IF i > Len(S[k].values) THEN <<>>
    ELSE LET src  == S[k].values[i]
             core == IF src.type = "Delayed" THEN src.rv ELSE src
             here == IF src.type = "Sequence"
                     THEN drainedFrom(S, src.values[1], 1, wrapped)
                     ELSE IF core.type = "Channel"
                     THEN IF src.type = "Delayed" /\ ~wrapped
                          THEN IF sentTuples = <<>> THEN <<>> ELSE <<sentTuples[1]>>
                          ELSE sentTuples
                     ELSE <<Receive(core)>>
         IN  here \o drainedFrom(S, k, i + 1, wrapped)

InitDrain ==
    /\ InitDoubles
    /\ defaultCall = [d \in Doubles |-> ShippedDefault]
    /\ InitGoroutines
    /\ seqs \in DrainShapes
    /\ \E n \in 0..MaxSend, closed \in BOOLEAN :
          /\ sender = [pc |-> IF closed THEN "done" ELSE "ready", n |-> n, closedAt |-> 0]
          /\ rc = [NewReturnChannel(MaxSend) EXCEPT
                      !.buf = [i \in 1..n |-> toSend(i)], !.closed = closed]

NextDrain ==
    \/ \E g \in Goroutines :
          receives < Len(drainedFrom(seqs, 1, 1, TRUE)) + MaxExtra /\ SeqReceive(g)
    \/ \E g \in Goroutines : SeqOnce(g)
    \/ \E g \in Goroutines : SeqRun(g)
    \/ \E g \in Goroutines : SeqHandoff(g)
    \/ \E g \in Goroutines : SeqNoValues(g)
    \/ \E k \in SeqIds : DrainAsk(k)
    \/ \E k \in SeqIds : DrainWake(k)
    \/ \E k \in SeqIds : WorkerHandoff(k)
    \/ \E k \in SeqIds : WorkerDrained(k)

SpecDrain == InitDrain /\ [][NextDrain]_vars

(***************************************************************************)
(* SpecReentrant: call(string) of d1 has a Fake whose implementation calls *)
(* Invoke of call or of other, behind a Stub that may match "first";       *)
(* goroutines invoke the methods of d1.                                    *)
(***************************************************************************)
NextReentrant ==
    \/ \E m \in MethodsOf("d1") : calls[m] = <<>> /\ Stub(m)
    \/ \E id \in Ids : heap[id].matcher = NilMatcher /\ Matching(id, "first")
    \/ \E m \in DispatchMethods, impl \in RelayImpls : Room(MaxCalls) /\ Fake(m, impl)
    \/ \E g \in Goroutines, m \in MethodsOf("d1") : \E args \in ArgsOf(m) :
          /\ tick < MaxTick
          /\ \A id \in Ids : heap[id].count < MaxCount
          /\ (Vivifies(m, args) => Len(heap) <= MaxCalls)
          /\ InvokeCall(g, m, args)
    \/ \E g \in Goroutines : InvokeLock(g)
    \/ \E g \in Goroutines : InvokeMatched(g)
    \/ \E g \in Goroutines : InvokeSpy(g)
    \/ \E g \in Goroutines : ~relays(g) /\ InvokeReceive(g)
    \/ \E g \in Goroutines : FakeInvokes(g)
    \/ \E g \in Goroutines : ~nested(g) /\ InvokeReturn(g)
    \/ \E g \in Goroutines : NestedReturn(g)

SpecReentrant == Init /\ [][NextReentrant]_vars

\* the scheduler runs every goroutine that is inside invoke, and a goroutine
\* waiting in Lock gets the mutex when it is released again and again
FairReentrant ==
    /\ SpecReentrant
    /\ \A g \in Goroutines :
          /\ WF_vars(InvokeMatched(g)) /\ WF_vars(InvokeSpy(g))
          /\ WF_vars(~relays(g) /\ InvokeReceive(g))
          /\ WF_vars(FakeInvokes(g))
          /\ WF_vars(~nested(g) /\ InvokeReturn(g))
          /\ WF_vars(NestedReturn(g))
          /\ SF_vars(InvokeLock(g))

(***************************************************************************)
(* Properties.                                                             *)
(***************************************************************************)
CallMethod == <<"d1", "call">>

\* the step is an invocation that returned to its caller
Invoked == last'.op = "Invoke" /\ ~last'.fatal

\* lower and upper bound of an expectation, from its definition
HasUpperBound(e) == e.type \in {"Exactly", "Between"}

ReachedUpperBound(c) == HasUpperBound(c.expect) /\ c.count >= c.expect.atMost

\* C1: an invocation is dispatched to the earliest-registered call of the
\* method whose matches(args) is true at that moment, and returns that call's
\* values; a later call is chosen only when every earlier one rejects the
\* invocation, and the default call only when every registered call does.
C1_FirstMatchWins ==
    [][Invoked =>
        LET cs == calls[last'.m]
            args == last'.args
        IN  IF last'.vivified
            THEN \A i \in 1..Len(cs) : ~matches(heap, heap[cs[i]], args)
            ELSE \E i \in 1..Len(cs) :
                    /\ cs[i] = last'.matched
                    /\ matches(heap, heap[cs[i]], args)
                    /\ \A j \in 1..(i - 1) : ~matches(heap, heap[cs[j]], args)
                    /\ heap[cs[i]].returns.type = "Values"
                          => last'.returns = heap[cs[i]].returns.values
    ]_vars

\* C1 witness: Stub matching "second" returning 1, then a catch-all Stub
\* returning 99; the invocation with "first" went to the second stub and
\* returned 99.
C1_Witness ==
    /\ Len(calls[CallMethod]) = 2
    /\ heap[1].kind = "Stub" /\ heap[1].matcher = ArgsEql("second")
    /\ heap[1].returns = Values(1)
    /\ heap[2].kind = "Stub" /\ heap[2].matcher = NilMatcher
    /\ heap[2].returns = Values(99)
    /\ last.op = "Invoke" /\ last.args = <<"first">>
    /\ last.matched = 2 /\ last.returns = <<99>>

\* C2: a Mock expecting Exactly(n) receives an invocation that its matcher
\* accepts and no earlier call takes exactly while it has counted fewer than
\* n calls; from then on such invocations fall through to a later call and
\* the mock's count stays n.
C2_MockExhaustion ==
    [][Invoked =>
        LET cs == calls[last'.m]
            args == last'.args
        IN  \A i \in 1..Len(cs) :
              LET M == heap[cs[i]]
              IN  (/\ M.kind = "Mock" /\ M.expect.type = "Exactly"
                   /\ stubMatches(M, args)
                   /\ \A j \in 1..(i - 1) : ~matches(heap, heap[cs[j]], args))
                  => /\ M.count <= M.expect.atLeast
                     /\ IF M.count < M.expect.atLeast
                        THEN /\ last'.matched = cs[i]
                             /\ heap'[cs[i]].count = M.count + 1
                        ELSE /\ last'.matched # cs[i]
                             /\ heap'[cs[i]].count = M.count
                             /\ \/ last'.vivified
                                \/ \E k \in (i + 1)..Len(cs) : last'.matched = cs[k]
    ]_vars

\* C2 witness: Mock returning 1 expecting Twice, then a Stub returning 99;
\* the mock has taken two invocations and the third returned 99.
C2_Witness ==
    /\ Len(calls[CallMethod]) = 2
    /\ heap[1].kind = "Mock" /\ heap[1].expect = Twice /\ heap[1].returns = Values(1)
    /\ heap[1].matcher = NilMatcher /\ heap[1].count = 2
    /\ heap[2].kind = "Stub" /\ heap[2].returns = Values(99)
    /\ last.op = "Invoke" /\ last.matched = 2 /\ last.returns = <<99>>


\* the invocation of the step is one the call id could take: it is of the
\* method of id, the matcher of id accepts it, and no call registered before
\* id on that method accepts it
Offered(id) ==
    LET cs == calls[last'.m]
    IN  /\ heap[id].method = last'.m
        /\ stubMatches(heap[id], last'.args)
        /\ \A j \in 1..Len(cs) :
              (\E i \in (j + 1)..Len(cs) : cs[i] = id)
                 => ~matches(heap, heap[cs[j]], last'.args)

\* no invocation is dispatched to a mock B while a mock A it was configured
\* After has counted fewer calls than the upper bound of A's expectation
NotBeforeAfter ==
    \A B \in 1..Len(heap) : \A A \in heap[B].after :
        last'.matched = B => ReachedUpperBound(heap[A])

\* C3 as stated: for mocks A and B with B configured After(A), no invocation
\* is dispatched to B while A's count is below the upper bound of A's
\* expectation; once A has reached it, the next invocation of B's method
\* that B's matcher accepts and no earlier registration accepts goes to B.
C3_AsStated ==
    [][Invoked =>
        /\ NotBeforeAfter
        /\ \A B \in 1..Len(heap) : \A A \in heap[B].after :
              (ReachedUpperBound(heap[A]) /\ heap[B].count = 0 /\ Offered(B))
                 => last'.matched = B
    ]_vars

\* C3 amended: the same, where B is dispatched to provided B's own
\* expectation is not complete already and every other mock B was configured
\* After has reached its upper bound too.
C3_Sequencing ==
    [][Invoked =>
        /\ NotBeforeAfter
        /\ \A B \in 1..Len(heap) : \A A \in heap[B].after :
              (/\ ReachedUpperBound(heap[A]) /\ heap[B].count = 0 /\ Offered(B)
               /\ ~ReachedUpperBound(heap[B])
               /\ \A C \in heap[B].after : ReachedUpperBound(heap[C]))
                 => last'.matched = B
    ]_vars

\* C3 witness: B on d1.call is After A on d2.call, A expects between one and
\* two calls and has counted two, and the invocation went to B.
C3_Witness ==
    /\ last.op = "Invoke" /\ ~last.fatal
    /\ \E B \in Ids : \E A \in heap[B].after :
          /\ last.matched = B
          /\ heap[B].method = <<"d1", "call">> /\ heap[A].method = <<"d2", "call">>
          /\ heap[A].expect = Between(1, 2) /\ heap[A].count = 2
          /\ heap[B].count = 1

\* is the upper bound of the expectation zero calls
ZeroUpperBound(c) == HasUpperBound(c.expect) /\ c.expect.atMost = 0

Occurrences(s, x) == Cardinality({i \in DOMAIN s : s[i] = x})

\* a Mock whose count does not satisfy Met of its expectation
Unmet(c) == c.kind = "Mock" /\ c.expect # NoExpect /\ ~Met(c.expect, c.count)

\* C5: Verify of a double reports exactly one failure for every Mock of
\* every method of the double whose count does not satisfy Met of its
\* expectation, none for any other registration, and goes on after the first
\* failure: k unmet Mocks give k reports.
C5_VerifyReportsEachUnmet ==
    last.op = "Verify" =>
        /\ \A id \in Ids :
              Occurrences(last.errors, id) =
                 IF receiver(heap[id].method) = last.d /\ Unmet(heap[id]) THEN 1 ELSE 0
        /\ Len(last.errors) =
              Cardinality({id \in Ids : receiver(heap[id].method) = last.d /\ Unmet(heap[id])})

\* C5 witness: Verify reported two unmet mocks and passed over a Mock whose
\* expectation of one call was met by a call.
C5_Witness ==
    /\ last.op = "Verify" /\ Len(last.errors) = 2
    /\ last.errors[1] # last.errors[2]
    /\ \E id \in Ids :
          /\ heap[id].kind = "Mock" /\ heap[id].expect = Once /\ heap[id].count = 1
          /\ Occurrences(last.errors, id) = 0
\* no explicitly registered call of m accepts args
Unregistered(m, args) ==
    \A i \in 1..Len(calls[m]) :
        heap[calls[m][i]].vivified \/ ~matches(heap, heap[calls[m][i]], args)

\* the default-derived calls of the method m
DefaultsOf(m) == {id \in Ids : heap[id].method = m /\ heap[id].vivified}

\* C6: with the shipped defaults, an invocation that no registered call
\* accepts is not fatal, returns the zero value, and is counted on a default
\* Mock expecting Never, the same Mock for every such invocation of the
\* method; Verify then reports that Mock exactly once, however many calls it
\* has counted.
C6_ShippedDefault ==
    /\ [][(last'.op = "Invoke" /\ Unregistered(last'.m, last'.args)) =>
            /\ ~last'.fatal
            /\ last'.returns = <<0>>
            /\ LET D == heap'[last'.matched]
               IN  /\ D.kind = "Mock" /\ D.expect = Never
                   /\ D.vivified /\ D.method = last'.m
                   /\ D.count = IF last'.vivified THEN 1
                                ELSE heap[last'.matched].count + 1
          ]_vars
    /\ [](\A m \in Methods : Cardinality(DefaultsOf(m)) <= 1)
    /\ [](last.op = "Verify" =>
            \A m \in MethodsOf(last.d) : \A id \in DefaultsOf(m) :
                heap[id].count >= 1 /\ Occurrences(last.errors, id) = 1)

\* C6 witness: the unregistered method was invoked twice, both calls were
\* counted on the one default Mock, and Verify reported it once.
C6_Witness ==
    /\ last.op = "Verify" /\ Len(last.errors) = 1
    /\ \E id \in DefaultsOf(CallMethod) :
          /\ heap[id].count = 2 /\ heap[id].expect = Never
          /\ last.errors = <<id>>
\* C7 as stated: under any default-call factory, the first invocation that
\* no explicit registration accepts appends a default-derived registration,
\* and every later one that returns is dispatched to that registration: the
\* list of the method does not grow again.
C7_AsStated ==
    [][(Invoked /\ Unregistered(last'.m, last'.args)) =>
        IF DefaultsOf(last'.m) = {}
        THEN /\ last'.vivified
             /\ calls'[last'.m] = Append(calls[last'.m], last'.matched)
        ELSE /\ last'.matched \in DefaultsOf(last'.m)
             /\ calls' = calls /\ Len(heap') = Len(heap)
    ]_vars

\* C7 amended: an invocation that no explicit registration accepts is
\* dispatched to the first default-derived registration that accepts it,
\* without growing the list; when there is none (none yet, or a default Mock
\* that completed, or a default whose matcher rejects the arguments) the
\* factory is called, and its call is appended if it accepts the invocation,
\* which is fatal otherwise.
C7_DefaultReuse ==
    [][(last'.op = "Invoke" /\ Unregistered(last'.m, last'.args)) =>
        LET m == last'.m
            cs == calls[m]
            accepting == {i \in 1..Len(cs) : /\ heap[cs[i]].vivified
                                             /\ matches(heap, heap[cs[i]], last'.args)}
            made == defaultCallFor(defaultCall[receiver(m)], m)
        IN  IF accepting # {}
            THEN /\ ~last'.fatal /\ ~last'.vivified
                 /\ \E i \in accepting :
                       /\ \A j \in accepting : i <= j
                       /\ last'.matched = cs[i]
                 /\ calls' = calls /\ Len(heap') = Len(heap)
            ELSE IF made # NilCall /\ matches(heap, made, last'.args)
            THEN /\ ~last'.fatal /\ last'.vivified
                 /\ Len(heap') = Len(heap) + 1
                 /\ last'.matched = Len(heap')
                 /\ calls' = [calls EXCEPT ![m] = Append(cs, last'.matched)]
            ELSE /\ last'.fatal
                 /\ calls' = calls /\ heap' = heap
    ]_vars

\* C7 witness: the default call is a Spy; the registration made by the first
\* unregistered invocation took the second one too and is the only call of
\* the method.
C7_Witness ==
    /\ defaultCall["d1"] = "Spy"
    /\ last.op = "Invoke" /\ ~last.fatal /\ ~last.vivified
    /\ calls[CallMethod] = <<last.matched>>
    /\ heap[last.matched].vivified
    /\ Len(heap[last.matched].recorded) = 2

\* the registered calls of m that are a Spy or a Fake
SpyLike(m) == {id \in Ids : heap[id].method = m /\ heap[id].kind \in {"Spy", "Fake"}}

\* C8: the list of a method never holds more than one Spy or Fake; Spy on
\* a method that holds one (registered by Spy or Fake, or made by the
\* default call during an invocation) returns that one and changes neither
\* the list nor any recorded call; Spy on a method that holds none appends
\* one fresh Spy and returns it.  A call is never removed, so every Spy of
\* the method returns the same instance.
C8_SpyIdempotent ==
    /\ [](\A m \in Methods : Cardinality(SpyLike(m)) <= 1)
    /\ [][\A id \in Ids : heap'[id].kind = heap[id].kind /\ heap'[id].method = heap[id].method]_vars
    /\ [][last'.op = "Spy" =>
            IF SpyLike(last'.m) # {}
            THEN /\ last'.result \in SpyLike(last'.m)
                 /\ heap' = heap /\ calls' = calls
            ELSE /\ last'.result = Len(heap) + 1
                 /\ heap' = Append(heap, newSpyMethodCall(last'.m))
                 /\ calls' = [calls EXCEPT ![last'.m] = Append(@, last'.result)]
          ]_vars

\* C8 witness: Spy retrieved the Spy that the default call made during an
\* invocation, with the call it recorded.
C8_Witness ==
    /\ last.op = "Spy"
    /\ heap[last.result].vivified /\ heap[last.result].kind = "Spy"
    /\ Len(heap[last.result].recorded) >= 1
    /\ calls[CallMethod] = <<last.result>>
\* C9: a Spy or a Fake takes every invocation of its method that no call
\* registered before it accepts; an invocation dispatched to it appends
\* exactly one recorded call, carrying the arguments of the invocation, to
\* the end of its log, and nothing else changes a log: the log holds one
\* recorded call per invocation dispatched to it, in dispatch order.
C9_SpyRecords ==
    /\ [][last'.op = "Invoke" =>
            LET cs == calls[last'.m]
            IN  \A i \in 1..Len(cs) :
                  (/\ heap[cs[i]].kind \in {"Spy", "Fake"}
                   /\ \A j \in 1..(i - 1) : ~matches(heap, heap[cs[j]], last'.args))
                     => ~last'.fatal /\ last'.matched = cs[i]
          ]_vars
    /\ [][\A id \in Ids :
            LET before == heap[id].recorded
                after == heap'[id].recorded
            IN  IF Invoked /\ last'.matched = id /\ heap[id].kind \in {"Spy", "Fake"}
                THEN /\ Len(after) = Len(before) + 1
                     /\ SubSeq(after, 1, Len(before)) = before
                     /\ after[Len(after)].args = last'.args
                ELSE after = before
          ]_vars

\* C9 witness: a Mock matching "second" is registered before a Fake (or a
\* Spy); of three invocations the one with "second" was counted by the Mock
\* and the two with "first" were dispatched to the Fake and are its log.
C9_Witness ==
    /\ Len(calls[CallMethod]) = 2
    /\ heap[1].kind = "Mock" /\ heap[1].matcher = ArgsEql("second")
    /\ heap[1].count = 1
    /\ heap[2].kind \in {"Spy", "Fake"}
    /\ last.op = "Invoke" /\ last.matched = 2
    /\ Len(heap[2].recorded) = 2
    /\ \A k \in 1..2 : heap[2].recorded[k].args = <<"first">>

\* the greatest tick of the recorded calls of a non-empty view
MaxTickOf(view) ==
    CHOOSE t \in {view[i].tick : i \in DOMAIN view} :
        \A i \in DOMAIN view : view[i].tick <= t

\* C10: V.After(O) is V filtered, in order, to the entries whose tick is
\* greater than the greatest tick of the entries of O, and V itself when O is
\* empty.
C10_AfterIsFilter ==
    last.op = "CallsAfter" =>
        last.result =
            IF last.o = <<>> THEN last.v
            ELSE SelectSeq(last.v, LAMBDA r : r.tick > MaxTickOf(last.o))

\* C10 witness: O holds an entry of another log that lies between two
\* entries of V, and V.After(O) is the later entry of V.
C10_Witness ==
    /\ last.op = "CallsAfter"
    /\ Len(last.v) = 2 /\ Len(last.o) = 1 /\ Len(last.result) = 1
    /\ last.v[1].tick < last.o[1].tick /\ last.o[1].tick < last.v[2].tick
    /\ last.result = <<last.v[2]>>
\* the entries of the view v at the positions i with from <= i < to, positions
\* counted from 0
Positions(v, from, to) ==
    LET k == IF to > from THEN to - from ELSE 0
    IN  [j \in 1..k |-> v[from + j]]

\* C11: Slice(from, to) of a view of length n is fatal when from > to or a
\* bound is negative; otherwise it does not fault and holds exactly the
\* entries at the positions i with from <= i < min(to, n), in order, which is
\* the empty view when from >= n.
C11_SliceClamps ==
    last.op = "Slice" =>
        LET n == Len(last.v)
            from == last.from
            to == last.to
        IN  IF from < 0 \/ to < 0 \/ from > to
            THEN last.result.fatal
            ELSE /\ ~last.result.fatal /\ ~last.result.panic
                 /\ last.result.calls = Positions(last.v, from, IF to < n THEN to ELSE n)
                 /\ from >= n => last.result.calls = <<>>

\* C11 witness: Slice(1, 5) of a view of three entries is its last two.
C11_Witness ==
    /\ last.op = "Slice" /\ Len(last.v) = 3
    /\ last.from = 1 /\ last.to = 5
    /\ last.result.calls = <<last.v[2], last.v[3]>>

\* the recorded calls of every log: the call and the position in its log
Records == {r \in Ids \X (1..MaxTick) : r[2] <= Len(heap[r[1]].recorded)}

tickOf(r) == heap[r[1]].recorded[r[2]].tick

\* C12: under any interleaving of concurrent invocations, every recorded
\* call has a tick drawn from the one shared counter that no other recorded
\* call has, in the same log or in another, and in every Spy or Fake log the
\* ticks increase strictly in append order
C12_UniqueTicks ==
    /\ \A r \in Records : tickOf(r) \in 1..tick
    /\ \A r, s \in Records : r # s => tickOf(r) # tickOf(s)
    /\ \A r, s \in Records : r[1] = s[1] /\ r[2] < s[2] => tickOf(r) < tickOf(s)
    /\ \A id \in Ids : Len(heap[id].recorded) <= MaxTick

\* two invocations race: one drew its tick and has not appended its recorded
\* call yet while another log already holds a later tick, next to a log with
\* two recorded calls
C12_Witness ==
    /\ \E g \in Goroutines, r \in Records :
          /\ procs[g].pc = "record"
          /\ r[1] # procs[g].matched
          /\ tickOf(r) > procs[g].tick + 1
    /\ \E id \in Ids : Len(heap[id].recorded) = 2

\* where a goroutine is between m.match and the return of method.invoke
Section == {"match", "record", "receive", "select", "parked", "return"}

inside(m) == {g \in Goroutines : procs[g].m = m /\ procs[g].pc \in Section}

\* C13: at most one invocation of a method is between the start of matching
\* and the moment it has its return tuple or has failed; it holds the mutex
\* of the method, and a second invocation starts matching only when no other
\* is inside, also while the first waits in the select of a return channel
C13_MethodLock ==
    /\ [](\A m \in Methods :
             /\ Cardinality(inside(m)) <= 1
             /\ inside(m) = {} => mutex[m] = "free"
             /\ inside(m) # {} => mutex[m] \in inside(m))
    /\ [][\A g \in Goroutines :
             procs[g].pc = "lock" /\ procs'[g].pc = "match" => inside(procs[g].m) = {}]_vars

\* an invocation is parked in the select of the return channel and a second
\* invocation of the same method waits in Lock
C13_Witness ==
    \E g, h \in Goroutines :
       /\ procs[g].pc = "parked" /\ procs[g].m = ChannelMethod
       /\ procs[h].pc = "lock" /\ procs[h].m = ChannelMethod

\* C14: an invocation of a method whose return values do not block runs to
\* completion whatever the invocations of another method of the double do,
\* also while one of those stays blocked in its return channel with its
\* mutex held, and also when the mock of the method is sequenced After a mock
\* of the blocked method
C14_NoContention ==
    \A g \in Goroutines :
       (procs[g].pc # "idle" /\ procs[g].m # ChannelMethod) ~> (procs[g].pc = "idle")

\* other() has obtained its return values while an invocation of
\* call(string) is parked in the return channel, and the mock of other() is
\* sequenced After the mock of call(string)
C14_Witness ==
    \E g, h \in Goroutines :
       /\ procs[h].pc = "parked" /\ procs[h].m = ChannelMethod
       /\ procs[g].pc = "return" /\ procs[g].m # ChannelMethod /\ procs[g].err = "nil"
       /\ \E id \in Ids : heap[id].method = procs[g].m /\ heap[id].after # {}

\* the Receives that returned a tuple, in the order they returned
tuplesGot == SelectSeq(got, LAMBDA e : e.err = "nil")

\* C15: on a return channel with or without buffer, the tuples that the
\* calls of Receive returned are, in the order they returned, the tuples
\* sent, in the order they were sent: none is returned twice, none is
\* skipped, and a tuple sent and not returned yet is still in the channel.
\* A Receive returns the timeout error only when its timer has fired.
C15_ChannelFifo ==
    /\ [](/\ \A i \in DOMAIN tuplesGot : tuplesGot[i].returns = toSend(i)
          /\ \A i \in DOMAIN rc.buf : rc.buf[i] = toSend(Len(tuplesGot) + i)
          /\ Len(tuplesGot) + Len(rc.buf) + Len(rc.sendq) = sender.n)
    /\ [][\A i \in (Len(got) + 1)..Len(got') :
            got'[i].err = ErrTimeout =>
               \/ procs[got'[i].g].timer = "fired"
               \/ procs[got'[i].g].pc = "parked" /\ ~chanReady
          ]_vars

\* C15 witness: on an unbuffered channel two tuples were sent and the two
\* goroutines received one each, the first tuple first.
C15_Witness ==
    /\ rc.cap = 0 /\ sender.n = 2
    /\ Len(got) = 2 /\ got[1].g # got[2].g
    /\ got[1].returns = toSend(1) /\ got[2].returns = toSend(2)

\* what a Receive on the closed channel returns: the oldest buffered tuple,
\* or the closed channel error once there is none
DrainOrClosed(e) ==
    IF rc.buf # <<>> THEN e.returns = Head(rc.buf) /\ e.err = "nil"
    ELSE e.returns = <<>> /\ e.err = ErrClosed

\* C16 as stated: after Close, each Receive returns the oldest tuple sent
\* and not received yet, and once there is none the closed channel error,
\* never the timeout error, whatever the timeout.
C16_AsStated ==
    [][\A i \in (Len(got) + 1)..Len(got') : rc'.closed => DrainOrClosed(got'[i])]_vars

\* what the select of Receive does guarantee on a closed channel: the same,
\* unless the timer of the Receive has fired before its select took a case:
\* then it may return the timeout error instead.  No Receive stays blocked
\* on the closed channel.
C16_ClosedChannel ==
    /\ [][\A i \in (Len(got) + 1)..Len(got') :
            rc'.closed =>
               \/ DrainOrClosed(got'[i])
               \/ got'[i].err = ErrTimeout /\ procs[got'[i].g].timer = "fired"
          ]_vars
    /\ [](rc.closed => parked = {})

\* the drain: the channel was closed with two tuples in its buffer; three
\* Receives then returned the first tuple, the second, and the closed
\* channel error.
C16_Witness ==
    /\ rc.closed /\ sender.n = 2 /\ sender.closedAt = 0
    /\ Len(got) = 3
    /\ got[1].returns = toSend(1) /\ got[2].returns = toSend(2)
    /\ got[3].err = ErrClosed

delivered == [i \in 1..Len(tuplesGot) |-> tuplesGot[i].returns]

\* C18: the tuples Receive hands out are, in delivery order, the tuples of
\* the first source, then of the second, and so on (all of them once the
\* worker has closed the relay channel), with two concurrent receivers; each
\* delivery goes to one receiver, which was waiting on the relay channel
C18_SequenceOrder ==
    /\ [](/\ Len(delivered) <= Len(tuplesOfSequence)
          /\ delivered = SubSeq(tuplesOfSequence, 1, Len(delivered)))
    /\ [](seqs[1].rvChan = "closed" => delivered = tuplesOfSequence)
    /\ [][/\ Len(got') <= Len(got) + 1
          /\ Len(got') = Len(got) + 1 =>
                LET e == got'[Len(got')]
                IN  /\ procs[e.g].pc = "recv" /\ procs'[e.g].pc = "idle"
                    /\ \A h \in Goroutines \ {e.g} : procs'[h] = procs[h]]_vars

\* Sequence(Sequence(Values(33), Values(55)), Values(44)) has delivered 33,
\* 55, 44, to two receivers
C18_Witness ==
    /\ delivered = << <<33>>, <<55>>, <<44>> >>
    /\ tuplesOfSequence = delivered
    /\ {tuplesGot[i].g : i \in 1..Len(tuplesGot)} = Goroutines

\* C19: once every tuple of the Sequence has been delivered, every Receive
\* returns the no-more-values error (and no Receive returns it before), and a
\* goroutine that is inside Receive then gets out of it
C19_NoMoreValues ==
    /\ [][\A i \in (Len(got) + 1)..Len(got') :
             got'[i].err = ErrNoValues <=> delivered = tuplesOfSequence]_vars
    /\ \A g \in Goroutines :
          (procs[g].pc # "idle" /\ delivered = tuplesOfSequence) ~> (procs[g].pc = "idle")

\* after 33, 55 and 44 both goroutines were refused
C19_Witness ==
    /\ Len(delivered) = 3
    /\ \A g \in Goroutines :
          \E i \in 1..Len(got) : got[i].g = g /\ got[i].err = ErrNoValues

\* the worker of seqs[j] is started by the worker of the Sequence it is a
\* source of
parents(j) == {k \in SeqIds : \E i \in 1..Len(seqs[k].values) :
                  seqs[k].values[i] = SequenceOf(j)}

\* C20: nothing is made or asked before the first Receive: a Sequence whose
\* once was not used has no relay channel, no worker and has asked no source;
\* the once of the Sequence is used only by a Receive, that of an inner
\* Sequence only by the worker that asked it; run happens at most once per
\* Sequence, also with two goroutines in their first Receive, and whoever
\* waits on the relay channel finds the one that run made
C20_LazyOnce ==
    /\ \A k \in SeqIds :
          /\ seqs[k].made <= 1
          /\ seqs[k].once = "new" =>
                seqs[k].rvChan = "nil" /\ seqs[k].worker = NoWorker /\ seqs[k].asked = 0
          /\ seqs[k].worker # NoWorker <=> seqs[k].made = 1
          /\ seqs[k].rvChan # "nil" <=> seqs[k].made = 1
          /\ k # 1 /\ seqs[k].once # "new" => \E p \in parents(k) : seqs[p].asked > 0
    /\ (got = <<>> /\ \A g \in Goroutines : procs[g].pc = "idle") =>
          \A k \in SeqIds : seqs[k].once = "new"
    /\ \A g \in Goroutines : procs[g].pc = "recv" => seqs[1].made = 1

\* two goroutines are in their first Receive, past once.Do, and there is one
\* worker
C20_Witness ==
    /\ got = <<>>
    /\ \A g \in Goroutines : procs[g].pc = "recv"
    /\ seqs[1].made = 1
    /\ seqs[1].worker.pc = "send"

\* C21: an invocation dispatched to a Fake appends its recorded call, one
\* entry, whether the implementation returns or panics; a panic of the
\* implementation reaches the caller of the invocation, with trace after it
\* was logged, and is not turned into a return or a fatal failure
C21_FakeRecordsFirst ==
    [][(last'.op = "Invoke" /\ ~last'.fatal /\ heap'[last'.matched].kind = "Fake") =>
          LET id == last'.matched
              c == heap'[id]
              before == IF id \in Ids THEN heap[id].recorded ELSE <<>>
          IN  /\ c.recorded = Append(before, [args |-> last'.args, tick |-> tick + 1])
              /\ \A other \in Ids \ {id} : heap'[other] = heap[other]
              /\ last'.panic <=> implPanics(c.impl, last'.args)
              /\ last'.panic =>
                    /\ last'.returns = <<>>
                    /\ last'.logged = "panic" <=> trace[receiver(last'.m)]
              /\ ~last'.panic => last'.returns = FakeImpl(last'.args)
    ]_vars

\* on a double with trace, the implementation of the Fake panicked in the
\* second invocation: the panic was logged and raised again, and the log of
\* the Fake holds both calls
C21_Witness ==
    /\ last.op = "Invoke" /\ last.panic /\ last.logged = "panic"
    /\ trace[receiver(last.m)]
    /\ heap[last.matched].kind = "Fake"
    /\ Len(heap[last.matched].recorded) = 2
    /\ heap[last.matched].recorded[2].args = <<"second">>

\* C22: Fake on a method whose list holds a Spy (or a Fake, which is one)
\* fails the test fatally and leaves the list and the calls as they were;
\* on any other method it appends the new Fake
C22_UnreachableFake ==
    [][last'.op = "Fake" =>
          IF SpyLike(last'.m) # {}
          THEN last'.fatal /\ calls' = calls /\ heap' = heap
          ELSE /\ ~last'.fatal
               /\ calls' = [calls EXCEPT ![last'.m] = Append(@, Len(heap) + 1)]
               /\ Len(heap') = Len(heap) + 1
               /\ heap'[Len(heap')].kind = "Fake"
               /\ \A id \in Ids : heap'[id] = heap[id]
    ]_vars

\* Fake failed on a method whose only call is the Spy registered by Spy
C22_Witness ==
    /\ last.op = "Fake" /\ last.fatal
    /\ Len(calls[last.m]) = 1
    /\ heap[calls[last.m][1]].kind = "Spy" /\ ~heap[calls[last.m][1]].vivified

\* the fakes registered on the method m
FakesOf(m) == {id \in Ids : heap[id].method = m /\ heap[id].kind = "Fake"}

\* C23 as stated: a method holds at most one Fake, and once it holds one
\* every invocation of the method is dispatched to it, whatever was
\* registered before
C23_AsStated ==
    /\ [](\A m \in Methods : Cardinality(FakesOf(m)) <= 1)
    /\ [][(last'.op = "Invoke" /\ FakesOf(last'.m) # {}) =>
             ~last'.fatal /\ last'.matched \in FakesOf(last'.m)]_vars

\* C24 as stated: a Mock registered without Expect expects exactly one
\* invocation: Verify reports it unless its count is 1
C24_AsStated ==
    last.op = "Verify" =>
        \A id \in Ids :
           (/\ heap[id].kind = "Mock" /\ heap[id].expect = NoExpect
            /\ ~heap[id].vivified
            /\ receiver(heap[id].method) = last.d)
              => (Occurrences(last.errors, id) = 0 <=> heap[id].count = 1)

\* C25: for every count, Exactly(n) is met at n and complete from n on;
\* Never is met at 0; AtLeast(n) is met from n on; Between(lo, hi) is met from
\* lo to hi and complete from hi on; AtMost(n) is Between(0, n); Never and
\* AtLeast are never complete; Once and Twice are Exactly(1) and Exactly(2)
C25_Expectations ==
    last.op = "Expectation" =>
        LET c == last.count
            n == last.n
        IN  CASE last.ctor = "Exactly" ->
                    (last.met <=> c = n) /\ (last.complete <=> c >= n)
              [] last.ctor = "Once" ->
                    /\ last.expect = Exactly(1)
                    /\ (last.met <=> c = 1) /\ (last.complete <=> c >= 1)
              [] last.ctor = "Twice" ->
                    /\ last.expect = Exactly(2)
                    /\ (last.met <=> c = 2) /\ (last.complete <=> c >= 2)
              [] last.ctor = "Never" -> (last.met <=> c = 0) /\ ~last.complete
              [] last.ctor = "AtLeast" -> (last.met <=> c >= n) /\ ~last.complete
              [] last.ctor = "AtMost" ->
                    /\ last.expect = Between(0, n)
                    /\ (last.met <=> (0 <= c /\ c <= n)) /\ (last.complete <=> c >= n)
              [] last.ctor = "Between" ->
                    /\ last.met <=> (n <= c /\ c <= last.max)
                    /\ last.complete <=> c >= last.max

\* Between(1, 3) at count 3: met and complete
C25_Witness ==
    /\ last.op = "Expectation" /\ last.ctor = "Between"
    /\ last.n = 1 /\ last.max = 3 /\ last.count = 3
    /\ last.met /\ last.complete

\* the matcher the construction rule builds from a non-empty list of inputs
built(matchers) ==
    IF matchers[1].type = "func" THEN Func(matchers[1])
    ELSE IF Len(matchers) > 1
    THEN Args([i \in DOMAIN matchers |-> genericSingleArgumentMatcher(matchers[i])])
    ELSE IF isMAM(matchers[1]) THEN matchers[1]
    ELSE Args(<<genericSingleArgumentMatcher(matchers[1])>>)

\* C26: a list of inputs whose matcher is incompatible with the method (too
\* many matchers, a matcher that does not fit the type of its argument, a
\* matcher in a position that is not a single argument matcher) fails the
\* test during the Matching call, whatever the shape of the list, and no
\* call holds a matcher that is incompatible with its method.
C26_AsStated ==
    /\ last.op \in {"MatchingList", "NewMatcherForMethod"} /\ last.matchers # <<>>
           /\ methodFatal(built(last.matchers), MethodType(last.method))
       => last.fatal
    /\ \A id \in Ids :
           heap[id].matcher # NilMatcher
           => ~methodFatal(heap[id].matcher, MethodType(heap[id].method[2]))

\* C27: a matcher built from an empty list of inputs fails the test.
C27_AsStated ==
    last.op \in {"MatchingList", "NewMatcherForMethod"} /\ last.matchers = <<>>
    => last.fatal

\* the call accounting of a registration: the count of a mock, the log of a
\* spy or fake
accounting(c) == [count |-> c.count, recorded |-> c.recorded]

\* C28: an invocation changes the count or the recorded log of the one
\* registration it is dispatched to, by one call (a stub keeps neither);
\* the count and log of every other registration, scanned and rejected by
\* match or not reached, are unchanged, and an invocation that match fails
\* changes none.
C28_MatchFrame ==
    [][last'.op = "Invoke" =>
          LET id == last'.matched
              before == IF id \in DOMAIN heap THEN heap[id]
                        ELSE [count |-> 0, recorded |-> <<>>]
          IN  /\ \A j \in DOMAIN heap : j # id => accounting(heap'[j]) = accounting(heap[j])
              /\ DOMAIN heap' = DOMAIN heap \cup (IF last'.fatal THEN {} ELSE {id})
              /\ ~last'.fatal =>
                    CASE heap'[id].kind = "Mock" ->
                            /\ heap'[id].count = before.count + 1
                            /\ heap'[id].recorded = before.recorded
                      [] heap'[id].kind \in {"Spy", "Fake"} ->
                            /\ heap'[id].count = before.count
                            /\ Len(heap'[id].recorded) = Len(before.recorded) + 1
                            /\ SubSeq(heap'[id].recorded, 1, Len(before.recorded)) = before.recorded
                            /\ heap'[id].recorded[Len(before.recorded) + 1].args = last'.args
                      [] OTHER -> accounting(heap'[id]) = accounting(before)]_vars

\* a mock that is complete after one call is scanned and passed over by the
\* invocation that the spy registered after it records
C28_Witness ==
    /\ Len(heap) = 2 /\ last.op = "Invoke" /\ ~last.fatal /\ last.matched = 2
    /\ heap[1].kind = "Mock" /\ heap[1].expect = Once /\ heap[1].count = 1
    /\ heap[2].kind = "Spy" /\ Len(heap[2].recorded) = 1
    /\ calls[CallMethod] = <<1, 2>>

\* C29: when the Receive of the return values of the matched call gives an
\* error (the Sequence has no more values, the return channel is closed or
\* timed out) spy hands invoke the error and no tuple, invoke fails the test
\* with Fatalf, which ends the goroutine, and never returns to its caller;
\* only an invocation without error returns.
C29_SourceErrorFatal ==
    [][\A g \in Goroutines :
          /\ \A i \in (Len(got) + 1)..Len(got') :
                (got'[i].g = g /\ got'[i].err # "nil")
                => /\ procs'[g].pc = "return"
                   /\ procs'[g].err = got'[i].err
                   /\ procs'[g].returns = <<>>
          /\ (procs[g].pc = "return" /\ procs'[g] # procs[g])
                => IF procs[g].err # "nil"
                   THEN /\ procs'[g].pc = "exited"
                        /\ procs'[g].err = procs[g].err
                        /\ procs'[g].returns = <<>>
                   ELSE procs'[g].pc = "idle"
          /\ procs[g].pc = "exited" => procs'[g] = procs[g]
          /\ procs'[g].pc = "idle" /\ procs[g].pc # "idle"
                => procs[g].pc = "return" /\ procs[g].err = "nil"]_vars

\* one invocation was ended by the Sequence that has no more values, the
\* other by the return channel (closed or timed out), and an invocation
\* before them had returned a tuple
C29_Witness ==
    \E g, h \in Goroutines :
       /\ procs[g].pc = "exited" /\ procs[g].err = ErrNoValues
       /\ procs[h].pc = "exited" /\ procs[h].err \in {ErrClosed, ErrTimeout}
       /\ \E i \in DOMAIN got : got[i].err = "nil"

\* the delayed source a goroutine is receiving from
delayedOf(g) == heap[procs[g].matched].returns

\* the sleeper is called with the configured duration, for RandDelayed with
\* a duration of [0, max)
slept(src, d) == IF src.rand THEN 0 <= d /\ d < src.d ELSE d = src.d

\* the wrapped source is asked only after the channel of the sleeper fired,
\* and what Receive returns is what the wrapped source returned
wakes(g) ==
    (procs[g].pc = "sleeping" /\ procs'[g].pc # "sleeping")
    => /\ procs[g].timer = "fired"
       /\ IF delayedOf(g).rv = ChannelReturns
          THEN procs'[g].pc = "select" /\ got' = got
          ELSE /\ procs'[g].pc = "idle"
               /\ got' = Append(got, gotEntry(g, Returned(delayedOf(g).rv.values)))

\* C30 as stated: every Receive of a Delayed or RandDelayed source calls
\* the sleeper, with the configured duration or a duration of [0, max), and
\* asks the wrapped source only after the channel of the sleeper fired.
C30_AsStated ==
    [][\A g \in Goroutines :
          /\ (procs[g].pc = "idle" /\ procs'[g].pc # "idle")
                => /\ procs'[g].pc = "sleeping"
                   /\ last'.op = "sleeper" /\ last'.g = g
                   /\ slept(heap[last'.id].returns, last'.d)
          /\ wakes(g)]_vars

\* C30: a Receive of a Delayed source, or of a RandDelayed source with
\* max > 0, calls the sleeper with the configured duration, or a duration
\* of [0, max), and asks the wrapped source only after the channel of the
\* sleeper fired; what it returns is what the wrapped source returned.  A
\* RandDelayed source with max <= 0 panics in Receive and calls neither the
\* sleeper nor the wrapped source.
C30_Delayed ==
    [][\A g \in Goroutines :
          /\ (procs[g].pc = "idle" /\ procs'[g].pc # "idle")
                => \E id \in Ids :
                      LET src == heap[id].returns
                      IN  IF src.rand /\ src.d <= 0
                          THEN /\ procs'[g].pc = "panicked"
                               /\ last'.op = "Int63n" /\ last'.id = id
                               /\ got' = got
                          ELSE /\ procs'[g].pc = "sleeping"
                               /\ last'.op = "sleeper" /\ last'.g = g /\ last'.id = id
                               /\ slept(src, last'.d)
          /\ wakes(g)
          /\ procs[g].pc = "panicked" => procs'[g] = procs[g]]_vars

\* a RandDelayed source with max = 2 around the return channel: its sleeper
\* was called with 1, and after it fired the Receive of the channel returned
\* the tuple that was sent
C30_Witness ==
    /\ Len(heap) = 1 /\ heap[1].returns = RandDelayed(ChannelReturns, 2)
    /\ last.op = "sleeper" /\ last.d = 1
    /\ got = <<gotEntry(last.g, Returned(toSend(1)))>>
    /\ procs[last.g].pc = "idle"

\* the mocks whose expectation has an upper bound
Bounded == {id \in Ids : heap[id].kind = "Mock" /\ HasUpperBound(heap[id].expect)}

\* the count of a bounded mock stays within its bound, and a complete mock
\* stays complete and is not dispatched to again
withinBound ==
    /\ [](\A id \in Bounded : heap[id].count <= heap[id].expect.atMost)
    /\ [][\A id \in Bounded :
             complete(heap[id]) => complete(heap'[id]) /\ heap'[id].count = heap[id].count]_vars

AfterUnbounded ==
    {id \in Ids : /\ heap[id].kind = "Mock"
                  /\ \E a \in heap[id].after : ~HasUpperBound(heap[a].expect)}

firstSpy(m) ==
    IF \E i \in DOMAIN calls[m] : isSpyMethodCall(heap[calls[m][i]])
    THEN CHOOSE i \in DOMAIN calls[m] :
            /\ isSpyMethodCall(heap[calls[m][i]])
            /\ \A j \in 1..(i - 1) : ~isSpyMethodCall(heap[calls[m][j]])
    ELSE 0

\* the calls registered after a Spy or Fake of their method
Shadowed ==
    {id \in Ids : \E m \in Methods : \E j \in DOMAIN calls[m] :
        firstSpy(m) # 0 /\ j > firstSpy(m) /\ calls[m][j] = id}

\* C33: a call registered after the Spy or Fake of its method is never
\* dispatched to, so a Mock among them is never counted and a Mock expecting
\* Once is reported by every Verify; and an invocation of a method that has
\* a Spy or Fake does not reach the default call.
C33_Shadowed ==
    /\ [](\A id \in Shadowed : heap[id].kind = "Mock" => heap[id].count = 0)
    /\ [][\A m \in Methods :
             (firstSpy(m) # 0 /\ last'.op = "Invoke" /\ last'.m = m)
             => /\ ~last'.vivified /\ ~last'.fatal
                /\ last'.matched \notin Shadowed
                /\ calls'[m] = calls[m]]_vars
    /\ [](last.op = "Verify"
            => \A id \in Shadowed :
                  (heap[id].expect = Once /\ receiver(heap[id].method) = last.d)
                  => \E i \in DOMAIN last.errors : last.errors[i] = id)

\* a Mock expecting Once was registered after the Spy of call(string), the
\* method was invoked, the Spy recorded the call and Verify reports the Mock
C33_Witness ==
    /\ Len(heap) = 2
    /\ heap[1].kind = "Spy" /\ Len(heap[1].recorded) = 1
    /\ heap[2].kind = "Mock" /\ heap[2].expect = Once /\ 2 \in Shadowed
    /\ last.op = "Verify" /\ last.errors = <<2>>

\* the goroutines that are inside invoke of m, past m.mutex.Lock()
running(m) ==
    {g \in Goroutines : procs[g].m = m /\ procs[g].pc \notin {"idle", "lock", "exited", "panicked"}}

\* C34: the mutex of a method is held only by a goroutine that is inside
\* invoke of the method, so it is free after a return, after the panic of
\* a Fake implementation and after a fatal failure; a held mutex is
\* released and a goroutine waiting in Lock gets past it.
C34_Released ==
    /\ [](\A m \in Methods : mutex[mutexOf(m)] # "free" => mutex[mutexOf(m)] \in running(m))
    /\ \A m \in Methods : (mutex[mutexOf(m)] # "free") ~> (mutex[mutexOf(m)] = "free")
    /\ \A g \in Goroutines : (procs[g].pc = "lock") ~> (procs[g].pc # "lock")

\* one goroutine ended in the panic of the Fake, the other ended in Fatalf,
\* the mutex is free and a stub was registered afterwards
C34_Witness ==
    /\ procs["g1"].pc = "panicked"
    /\ procs["g2"].pc = "exited"
    /\ mutex[<<"d1", "call">>] = "free"
    /\ last.op = "Stub" /\ phase = "Exercise"

\* is the recorded call x an entry of the view
holds(view, x) == \E i \in DOMAIN view : view[i] = x

recordOf(r) == heap[r[1]].recorded[r[2]]

\* the tick of a recorded call is drawn after its invocation began and is
\* greater than the tick of every call recorded by then, so of every
\* invocation that had returned when this one began; and the call is
\* appended with the tick that was drawn
drawnLater ==
    /\ [][\A g \in Goroutines :
             (procs[g].pc = "match" /\ procs'[g].pc = "record")
             => /\ procs'[g].tick = tick /\ tick' = tick + 1
                /\ \A r \in Records : tickOf(r) < procs'[g].tick + 1]_vars
    /\ [][\A g \in Goroutines :
             (procs[g].pc = "record" /\ procs'[g].pc # "record")
             => LET log == heap'[procs[g].matched].recorded
                IN  log[Len(log)].tick = procs[g].tick + 1]_vars

\* C35 as stated: an invocation X that returned before an invocation Y
\* began has the smaller tick, and the log of Y's method After any view
\* that contains X contains Y.
C35_AsStated ==
    /\ drawnLater
    /\ [](\A x, y \in Records :
             tickOf(x) < tickOf(y)
             => \A v \in ViewsOf(heap[x[1]].recorded) :
                   holds(v, recordOf(x))
                   => holds(CallsAfter(heap[y[1]].recorded, v), recordOf(y)))

\* C35: an invocation X that returned before an invocation Y began, on any
\* two spied or faked methods of any doubles, has the smaller tick, and
\* the log of Y's method After a view whose last entry is X contains Y.
C35_TickOrder ==
    /\ drawnLater
    /\ [](\A x, y \in Records :
             tickOf(x) < tickOf(y)
             => \A v \in ViewsOf(heap[x[1]].recorded) :
                   (v # <<>> /\ v[Len(v)] = recordOf(x))
                   => holds(CallsAfter(heap[y[1]].recorded, v), recordOf(y)))

\* an invocation of d2 ran from begin to return between two invocations of
\* d1 that have returned as well: its tick lies between theirs
C35_Witness ==
    /\ \A g \in Goroutines : procs[g].pc = "idle"
    /\ \E x, y \in Records :
          /\ heap[x[1]].method = <<"d1", "call">> /\ heap[y[1]].method = <<"d2", "call">>
          /\ Len(heap[x[1]].recorded) = 2 /\ x[2] = 1
          /\ tickOf(x) < tickOf(y)
          /\ tickOf(y) < heap[x[1]].recorded[2].tick

\* is v an order-preserving sub-sequence of p
RECURSIVE isSubSeq(_, _)
isSubSeq(v, p) ==
    IF v = <<>> THEN TRUE
    ELSE IF p = <<>> THEN FALSE
    ELSE IF Head(v) = Head(p) THEN isSubSeq(Tail(v), Tail(p))
    ELSE isSubSeq(v, Tail(p))

\* the views: the spyMethodCalls that no method lists
Views == {id \in Ids : \A m \in Methods : \A i \in DOMAIN calls[m] : calls[m][i] # id}

\* the log a view of the method m derives from
logOf(m) == heap[calls[m][1]].recorded

\* C36: every view built by any nesting of Matching, Slice and After is an
\* order-preserving sub-sequence of the log of its Spy, strictly increasing
\* in tick, with its greatest tick at its last entry; building a view
\* leaves the log and every view built before as they were, and so does an
\* invocation the Spy records later, which only appends to the log.
C36_Views ==
    /\ [](\A id \in Views :
             LET v == heap[id].recorded
             IN  /\ isSubSeq(v, logOf(heap[id].method))
                 /\ \A i, j \in DOMAIN v : i < j => v[i].tick < v[j].tick
                 /\ v # <<>> => v[Len(v)].tick = MaxTickOf(v))
    /\ [][\A id \in Ids :
             IF id \in Views \/ Len(heap') > Len(heap)
             THEN heap'[id].recorded = heap[id].recorded
             ELSE /\ Len(heap'[id].recorded) >= Len(heap[id].recorded)
                  /\ SubSeq(heap'[id].recorded, 1, Len(heap[id].recorded))
                        = heap[id].recorded]_vars

\* a Slice of the log of three calls shares the array of the log and ends
\* where the log ended, a Matching view of that view holds the first and
\* the third call, and the fourth call was then appended in place, in the
\* cell of the array right behind the first view
C36_Witness ==
    /\ Len(heap) = 3 /\ Views = {2, 3}
    /\ Len(heap[1].recorded) = 4 /\ heap[1].cap = 4
    /\ heap[2].arr = heap[1].arr /\ heap[2].off = 0 /\ Len(heap[2].recorded) = 3
    /\ heap[3].recorded = <<heap[1].recorded[1], heap[1].recorded[3]>>
    /\ last.op = "Invoke"

\* the argument tuples of the methods
StringSlices ==
    {<<>>, <<Str("first")>>, <<Str("second")>>, <<Str("first"), Str("second")>>,
     <<Str("first"), Str("first")>>}

ArgTuples(name) ==
    CASE name = "call"     -> {<<Str(v)>> : v \in ArgValues}
      [] name = "test"     -> {<<IntArg(10), Str(v)>> : v \in ArgValues}
      [] name = "variadic" -> {<<IntArg(10), SliceOf(e)>> : e \in StringSlices}

\* ForMethod was called once more on a matcher that had passed it
again == last.op = "ForMethod" /\ last'.op = "ForMethod" /\ last'.times = last.times + 1

\* C37 as stated: ForMethod called again on an Args matcher that passed it,
\* also one whose trailing matchers were collapsed for a variadic method,
\* does not fail and leaves the accepted argument tuples as they were.
C37_AsStated ==
    [][again =>
         /\ ~last'.fatal
         /\ \A args \in ArgTuples(last.method) :
                argsMatch(last'.matcher, args) = argsMatch(last.matcher, args)]_vars

\* C37 for the matchers that ForMethod does not collapse, those of a method
\* that is not variadic and those that stop before the variadic position:
\* ForMethod called again does not fail and changes nothing.
C37_NotCollapsed ==
    [][(again /\ last.matcher = last.given) =>
         ~last'.fatal /\ last'.matcher = last.matcher]_vars

\* Args(Eql(10), Eql("first"), Eql("second")) passed ForMethod of the
\* variadic method, which collapsed it, and ForMethod was called again
C37_Witness ==
    /\ last.op = "ForMethod" /\ last.method = "variadic" /\ last.times = 2
    /\ last.given = Args(<<Eql(Raw(IntArg(10))), Eql(Raw(Str("first"))), Eql(Raw(Str("second")))>>)

\* what a call has counted: the count of a Mock, the length of the log of a
\* Spy
tally(c) == IF c.kind = "Mock" THEN c.count ELSE Len(c.recorded)

\* the errors of a return source
SourceErrors == {ErrTimeout, ErrClosed, ErrNoValues}

\* C38: matched.spy counts the invocation of a Mock, and appends the record of
\* a Spy, before the return source is consulted (the step leaves the return
\* channel, the Sequences and what was received alone and goes on to
\* Receive); no later step of the invocation, its failing with the error of
\* the source and its t.Fatalf included, takes the count or the record back;
\* Verify reports exactly the Mocks whose count, the failed invocations
\* included, does not meet their expectation; and a Mock sequenced After
\* others is matched only when the counts of those, the failed invocations
\* included, completed them.
C38_CountedBeforeSource ==
    [][/\ \A g \in Goroutines :
             LET id == procs[g].matched
             IN  /\ (procs[g].pc = "spy" /\ procs'[g] # procs[g])
                       => /\ procs'[g].pc = "receive"
                          /\ heap[id].kind \in {"Mock", "Spy"}
                                => tally(heap'[id]) = tally(heap[id]) + 1
                          /\ rc' = rc /\ seqs' = seqs /\ got' = got
                 /\ (procs[g].pc \notin {"idle", "lock", "match", "spy"}
                     /\ procs'[g] # procs[g])
                       => /\ heap'[id] = heap[id]
                          /\ procs'[g].err # "nil" /\ procs'[g].pc # "idle"
                                => procs'[g].matched = id
                 /\ (procs[g].pc = "match" /\ procs'[g].pc = "spy")
                       => \A a \in heap'[procs'[g].matched].after :
                             Complete(heap[a].expect, heap[a].count)
       /\ \A id \in Ids : tally(heap'[id]) >= tally(heap[id])
       /\ (last'.op = "Verify" /\ last' # last)
             => \A id \in Ids :
                   (\E i \in DOMAIN last'.errors : last'.errors[i] = id)
                   <=> (heap[id].kind = "Mock" /\ heap[id].expect # NoExpect
                        /\ ~Met(heap[id].expect, heap[id].count))]_vars

\* the only invocation of the first Mock, expected once, failed with the
\* error of its source and ended its goroutine; the Mock sequenced After it
\* was matched and counted, and Verify reports nothing
C38_Witness ==
    /\ Len(heap) >= 2
    /\ heap[1].kind = "Mock" /\ heap[1].expect = Once /\ heap[1].count = 1
    /\ heap[2].kind = "Mock" /\ heap[2].after = {1} /\ heap[2].count = 1
    /\ \E g \in Goroutines :
          /\ procs[g].pc = "exited" /\ procs[g].matched = 1
          /\ procs[g].err \in SourceErrors
    /\ last.op = "Verify" /\ last.errors = <<>>

\* is p the start of q
startOf(p, q) == Len(p) <= Len(q) /\ SubSeq(q, 1, Len(p)) = p

\* the Sequence is over: the worker closed the relay channel
drainOver == seqs[1].rvChan = "closed"

\* C39: the tuples the receivers of a Sequence get are, in order, one tuple of
\* each single-valued source and every tuple of each multi-valued source up
\* to its first error, a return channel wrapped in Delayed or RandDelayed
\* included; an error of a source is reported to no receiver.
C39_AsStated ==
    /\ startOf(delivered, drainedFrom(seqs, 1, 1, TRUE))
    /\ drainOver => delivered = drainedFrom(seqs, 1, 1, TRUE)
    /\ \A i \in DOMAIN got : got[i].err \in {"nil", ErrNoValues}

\* the same with a return channel inside Delayed or RandDelayed asked once,
\* as a single-valued source is
C39_WrappedOnce ==
    /\ startOf(delivered, drainedFrom(seqs, 1, 1, FALSE))
    /\ drainOver => delivered = drainedFrom(seqs, 1, 1, FALSE)
    /\ \A i \in DOMAIN got : got[i].err \in {"nil", ErrNoValues}

\* a Sequence is over whose wrapped return channel held two tuples
C39_Witness ==
    /\ drainOver
    /\ seqs[1].values[1].type = "Delayed" /\ seqs[1].values[1].rv = ChannelReturns
    /\ sender.n = 2
    /\ \E i \in DOMAIN got : got[i].err = ErrNoValues

\* g is not inside Invoke: it has not called it, or Invoke is over
outside(g) == procs[g].pc \in {"idle", "exited"}

\* g waits in Lock for a mutex that g holds
selfLocked(g) == procs[g].pc = "lock" /\ mutex[mutexOf(procs[g].m)] = g

\* C40: every invocation, of a fixed source or of a Fake whose implementation
\* returns or calls Invoke of the same or of another method of the double, is
\* over eventually.
C40_AsStated == \A g \in Goroutines : ~outside(g) ~> outside(g)

\* the same for the behaviours in which no implementation calls Invoke of
\* the method it is the Fake of
C40_OtherMethod ==
    (\A g \in Goroutines : []~selfLocked(g)) => C40_AsStated

\* an implementation is waiting in Lock of the method it was invoked through
C40_Witness == \E g \in Goroutines : nested(g) /\ selfLocked(g)

====
